---- MODULE Spec2Model ----
(***************************************************************************)
(* Model of aideon-tools: the node model and its three codecs (workbook    *)
(* flatten/unflatten, RDF quads, JSON-LD).  Every codec operation is a     *)
(* pure function of its inputs; an action applies one operation to the     *)
(* current state.  Strings are TLA+ strings and are compared bytewise, as  *)
(* Rust compares String.                                                   *)
(***************************************************************************)
EXTENDS Integers, Sequences, FiniteSets, TLC

VARIABLES
    pc,         \* position of the conversion under way
    nodes,      \* the node list handed to a writer (Vec<Node>)
    workbook,   \* WorkbookData.tables as written to the .xlsx file
    order,      \* iteration order of the reader's two HashMaps
    restored,   \* Result<Vec<Node>> of the reader
    rdfFormat,  \* the RdfFormat of the RDF file
    rdfFile,    \* the result of write_rdf and the quads in the RDF file
    jsonInput,  \* the JSON-LD document given to the parser (serde_json::Value)
    jsonOutput, \* the JSON-LD document written by nodes_to_jsonld
    reparsed,   \* Result<Vec<Node>> of parsing the written document
    outputFile, \* the file at the output path: None, or Some(content)
    args,       \* the command line of the sync command (SyncArgs)
    syncResult  \* the outcome of execute_sync

vars == <<pc, nodes, workbook, order, restored, rdfFormat, rdfFile, jsonInput, jsonOutput, reparsed,
          outputFile, args, syncResult>>

----------------------------------------------------------------------------
(* Strings: byte order, prefixes, trimming.                                *)

\* the printable ASCII characters in byte order, from 32 and from 97
AsciiLow ==
    " !\"#$%&'" \o "(" \o ")" \o "*" \o "+,-./0123456789:;<=>?@ABCDEFGHIJKLMNOPQRSTUVWXYZ["
    \o "\\" \o "]^_"

AsciiHigh == "abcdefghijklmnopqrstuvwxyz{|}~"

Chars ==
    {SubSeq(AsciiLow, i, i) : i \in 1..Len(AsciiLow)}
        \cup {SubSeq(AsciiHigh, i, i) : i \in 1..Len(AsciiHigh)}

\* the byte of a character
Code ==
    [c \in Chars |->
        IF \E i \in 1..Len(AsciiLow) : SubSeq(AsciiLow, i, i) = c
        THEN 31 + (CHOOSE i \in 1..Len(AsciiLow) : SubSeq(AsciiLow, i, i) = c)
        ELSE 96 + (CHOOSE i \in 1..Len(AsciiHigh) : SubSeq(AsciiHigh, i, i) = c)]

CharAt(s, i) == SubSeq(s, i, i)

\* characters outside the table do not occur in the model's strings
CodeOf(c) == IF c \in Chars THEN Code[c] ELSE 0

\* the comparison is decided at the first position where the strings differ
StrCmpFrom(a, b, i) ==
    LET n == IF Len(a) < Len(b) THEN Len(a) ELSE Len(b)
        differ == {j \in i..n : CharAt(a, j) # CharAt(b, j)}
    IN IF differ = {}
       THEN IF Len(a) = Len(b) THEN 0 ELSE IF Len(a) < Len(b) THEN -1 ELSE 1
       ELSE LET j == CHOOSE j \in differ : \A k \in differ : j <= k
            IN IF CodeOf(CharAt(a, j)) < CodeOf(CharAt(b, j)) THEN -1 ELSE 1

\* str::cmp
StrCmp(a, b) == IF a = b THEN 0 ELSE StrCmpFrom(a, b, 1)

StrLt(a, b) == StrCmp(a, b) < 0

\* Body applied to the value v, which is computed once
Bind(v, Body(_)) == Body(v)

\* (String, String)::cmp
PairLt(x, y) == StrLt(x[1], y[1]) \/ (x[1] = y[1] /\ StrLt(x[2], y[2]))

\* Option<String>::cmp, None first; an Option is <<>> or <<value>>
None == <<>>
Some(x) == <<x>>
OptLt(x, y) ==
    IF x = None THEN y # None
    ELSE IF y = None THEN FALSE ELSE StrLt(x[1], y[1])

\* str::find: the index of the first c of s at or after i, or 0
RECURSIVE IndexFrom(_, _, _)
IndexFrom(s, c, i) ==
    IF i > Len(s) THEN 0 ELSE IF CharAt(s, i) = c THEN i ELSE IndexFrom(s, c, i + 1)

StartsWith(s, p) == Len(s) >= Len(p) /\ SubSeq(s, 1, Len(p)) = p
EndsWith(s, p) == Len(s) >= Len(p) /\ SubSeq(s, Len(s) - Len(p) + 1, Len(s)) = p

\* char::is_whitespace, among the characters of the model
Whitespace == {" ", "\t", "\n", "\r", "\f"}

RECURSIVE TrimStart(_)
TrimStart(s) == IF s # "" /\ CharAt(s, 1) \in Whitespace THEN TrimStart(SubSeq(s, 2, Len(s))) ELSE s
RECURSIVE TrimEnd(_)
TrimEnd(s) == IF s # "" /\ CharAt(s, Len(s)) \in Whitespace THEN TrimEnd(SubSeq(s, 1, Len(s) - 1)) ELSE s
\* str::trim
Trim(s) == TrimEnd(TrimStart(s))

\* the members of a BTreeSet<String>, or the keys of a BTreeMap, in iteration order
RECURSIVE SortedStrings(_)
SortedStrings(S) ==
    IF S = {} THEN <<>>
    ELSE LET m == CHOOSE x \in S : \A y \in S : x = y \/ StrLt(x, y)
         IN <<m>> \o SortedStrings(S \ {m})

RECURSIVE SortedPairs(_)
SortedPairs(S) ==
    IF S = {} THEN <<>>
    ELSE LET m == CHOOSE x \in S : \A y \in S : x = y \/ PairLt(x, y)
         IN <<m>> \o SortedPairs(S \ {m})

\* the order of tuples of strings
RECURSIVE KeyLt(_, _)
KeyLt(x, y) ==
    IF x = <<>> THEN y # <<>>
    ELSE IF y = <<>> THEN FALSE
    ELSE IF Head(x) = Head(y) THEN KeyLt(Tail(x), Tail(y))
    ELSE StrLt(Head(x), Head(y))

RECURSIVE InsertStable(_, _, _, _)
InsertStable(sorted, sortedKeys, x, k) ==
    IF sorted = <<>> THEN <<x>>
    ELSE IF KeyLt(k, sortedKeys[Len(sorted)])
         THEN InsertStable(SubSeq(sorted, 1, Len(sorted) - 1),
                           SubSeq(sortedKeys, 1, Len(sorted) - 1), x, k)
                  \o <<sorted[Len(sorted)]>>
         ELSE sorted \o <<x>>

\* slice::sort_by: a stable sort of seq, keys[i] being the sort key of seq[i]
RECURSIVE SortByKey(_, _)
SortByKey(seq, keys) ==
    IF seq = <<>> THEN <<>>
    ELSE LET n == Len(seq)
             front == SortByKey(SubSeq(seq, 1, n - 1), SubSeq(keys, 1, n - 1))
             frontKeys == SortByKey(SubSeq(keys, 1, n - 1), SubSeq(keys, 1, n - 1))
         IN InsertStable(front, frontKeys, seq[n], keys[n])

Range(seq) == {seq[i] : i \in 1..Len(seq)}

RECURSIVE Concat(_)
Concat(seqs) == IF seqs = <<>> THEN <<>> ELSE Head(seqs) \o Concat(Tail(seqs))

RECURSIVE Join(_, _)
Join(strs, sep) ==
    IF strs = <<>> THEN ""
    ELSE IF Len(strs) = 1 THEN strs[1]
    ELSE strs[1] \o sep \o Join(Tail(strs), sep)

----------------------------------------------------------------------------
(* The node model (model/mod.rs).                                          *)

SString(x) == [tag |-> "String", s |-> x, n |-> 0, b |-> FALSE]
SNumber(x) == [tag |-> "Number", s |-> "", n |-> x, b |-> FALSE]
SBoolean(x) == [tag |-> "Boolean", s |-> "", n |-> 0, b |-> x]
SNull == [tag |-> "Null", s |-> "", n |-> 0, b |-> FALSE]

PScalar(sv) == [variant |-> "Scalar", scalar |-> sv, ref |-> "", scalars |-> <<>>, refs |-> <<>>]
PObjectRef(t) == [variant |-> "ObjectRef", scalar |-> SNull, ref |-> t, scalars |-> <<>>, refs |-> <<>>]
PScalars(items) == [variant |-> "Scalars", scalar |-> SNull, ref |-> "", scalars |-> items, refs |-> <<>>]
PObjectRefs(items) == [variant |-> "ObjectRefs", scalar |-> SNull, ref |-> "", scalars |-> <<>>, refs |-> items]

NoProperties == [p \in {} |-> PScalar(SNull)]

\* Node::with_graph
NodeWithGraph(id, graph) == [id |-> id, graph |-> graph, types |-> {}, properties |-> NoProperties]

\* Node::insert_property: insert or replace
InsertProperty(node, predicate, value) ==
    [node EXCEPT !.properties =
        [p \in DOMAIN node.properties \cup {predicate} |->
            IF p = predicate THEN value ELSE node.properties[p]]]

\* the order of the (graph, id) keys of the accumulation maps and of the final sort
NodeLt(x, y) == OptLt(x.graph, y.graph) \/ (x.graph = y.graph /\ StrLt(x.id, y.id))

----------------------------------------------------------------------------
(* JSON text of scalars, as serde_json writes and reads it.  The strings of *)
(* the model hold no quote, backslash or control character, so no escape   *)
(* sequence occurs.                                                        *)

\* the numbers the model's scalars take
NumberPool == {1, 30}

\* f64 Display / serde_json of a whole number
NumberToJsonText(n) == ToString(n) \o ".0"

\* ScalarValue::to_json followed by serde_json::to_string
ScalarToJsonText(sv) ==
    CASE sv.tag = "String" -> "\"" \o sv.s \o "\""
      [] sv.tag = "Number" -> NumberToJsonText(sv.n)
      [] sv.tag = "Boolean" -> IF sv.b THEN "true" ELSE "false"
      [] OTHER -> "null"

ArrayToJsonText(items) ==
    "[" \o Join([i \in 1..Len(items) |-> ScalarToJsonText(items[i])], ",") \o "]"

\* the index of the first character c of s at or after i that lies outside a
\* string literal, or 0
RECURSIVE FindOutside(_, _, _, _)
FindOutside(s, c, i, inString) ==
    IF i > Len(s) THEN 0
    ELSE IF CharAt(s, i) = "\"" THEN FindOutside(s, c, i + 1, ~inString)
    ELSE IF ~inString /\ CharAt(s, i) = c THEN i
    ELSE FindOutside(s, c, i + 1, inString)

\* the texts of the members of the array body s (the text between [ and ])
RECURSIVE SplitItems(_)
SplitItems(s) ==
    IF s = "" THEN <<>>
    ELSE LET k == FindOutside(s, ",", 1, FALSE)
         IN IF k = 0 THEN <<s>>
            ELSE <<SubSeq(s, 1, k - 1)>> \o SplitItems(SubSeq(s, k + 1, Len(s)))

JsonError == [ok |-> FALSE, kind |-> "error", scalar |-> SNull, items |-> <<>>]
JsonScalar(sv) == [ok |-> TRUE, kind |-> "scalar", scalar |-> sv, items |-> <<>>]

\* serde_json::from_str on the text of one scalar, then value_to_scalar
ParseJsonScalar(text) ==
    LET t == Trim(text)
    IN CASE t = "null" -> JsonScalar(SNull)
         [] t = "true" -> JsonScalar(SBoolean(TRUE))
         [] t = "false" -> JsonScalar(SBoolean(FALSE))
         [] Len(t) >= 2 /\ CharAt(t, 1) = "\"" /\ CharAt(t, Len(t)) = "\""
                /\ FindOutside(t, "\"", 2, TRUE) = 0 ->
                JsonScalar(SString(SubSeq(t, 2, Len(t) - 1)))
         [] \E n \in NumberPool : t \in {NumberToJsonText(n), ToString(n)} ->
                JsonScalar(SNumber(CHOOSE n \in NumberPool :
                                        t \in {NumberToJsonText(n), ToString(n)}))
         [] OTHER -> JsonError

\* serde_json::from_str::<Value> on a cell text: a scalar, or an array of scalars
ParseJsonText(text) ==
    LET t == Trim(text)
    IN IF Len(t) >= 2 /\ CharAt(t, 1) = "[" /\ CharAt(t, Len(t)) = "]"
       THEN LET parts == SplitItems(SubSeq(t, 2, Len(t) - 1))
                parsed == [i \in 1..Len(parts) |-> ParseJsonScalar(parts[i])]
            IN IF \A i \in 1..Len(parts) : parsed[i].ok
               THEN [ok |-> TRUE, kind |-> "array", scalar |-> SNull,
                     items |-> [i \in 1..Len(parts) |-> parsed[i].scalar]]
               ELSE JsonError
       ELSE ParseJsonScalar(t)

----------------------------------------------------------------------------
(* Flatten: build_workbook (flatten/mod.rs).                               *)

UNTYPED_MARKER == "__untyped__"
ENTITIES_SHEET == "Entities"
METADATA_SHEET == "Metadata"

\* the width cap of a sheet name
MaxSheetNameLen == 31

SheetTable(name, columns, rows) == [sheet_name |-> name, columns |-> columns, rows |-> rows]

\* (mutant) a node filed under its first type only
node_types_first_only(node) ==
    IF node.types = {} THEN <<UNTYPED_MARKER>> ELSE SubSeq(SortedStrings(node.types), 1, 1)

\* the types a node is filed under: its sorted types, or the marker
node_types(node) ==
    IF node.types = {} THEN <<UNTYPED_MARKER>> ELSE SortedStrings(node.types)

\* a cell writer that leaves the text of a string unquoted
scalar_to_cell_value_unquoted(sv) == IF sv.tag = "String" THEN sv.s ELSE ScalarToJsonText(sv)

\* scalar_to_cell_value: the JSON text of the scalar
scalar_to_cell_value(sv) == ScalarToJsonText(sv)

\* the type-table column a property value is written to
ColumnOf(predicate, value) ==
    IF value.variant = "ObjectRef" THEN predicate \o "Id" ELSE predicate

\* the cell text of a property value of a type table
CellOf(value) ==
    CASE value.variant = "Scalar" -> scalar_to_cell_value(value.scalar)
      [] value.variant = "ObjectRef" -> value.ref
      [] OTHER -> ArrayToJsonText(value.scalars)

\* the predicates of a node that a type table holds, in BTreeMap order
TablePredicates(node) ==
    SortedStrings({p \in DOMAIN node.properties : node.properties[p].variant # "ObjectRefs"})

\* row_values: column -> cell, filled in predicate order, a later insert
\* replacing an earlier one of the same column
RECURSIVE RowValuesFrom(_, _, _)
RowValuesFrom(node, preds, acc) ==
    IF preds = <<>> THEN acc
    ELSE LET p == Head(preds)
             col == ColumnOf(p, node.properties[p])
         IN RowValuesFrom(node, Tail(preds),
                [c \in DOMAIN acc \cup {col} |->
                    IF c = col THEN CellOf(node.properties[p]) ELSE acc[c]])

RowValues(node) == RowValuesFrom(node, TablePredicates(node), [c \in {} |-> ""])

\* the keys of type_builders
TypeNamesOf(ns) == UNION {Range(node_types(ns[i])) : i \in 1..Len(ns)}

\* TypeTableBuilder.columns of a type
TypeColumns(ns, t) ==
    UNION {DOMAIN RowValues(ns[i]) : i \in {j \in 1..Len(ns) : t \in Range(node_types(ns[j]))}}

\* TypeTableBuilder.rows of a type in the order of the input
TypeRowsUnsorted(ns, t) ==
    LET members == SelectSeq([i \in 1..Len(ns) |-> ns[i]],
                             LAMBDA n : t \in Range(node_types(n)))
    IN [i \in 1..Len(members) |-> [id |-> members[i].id, values |-> RowValues(members[i])]]

\* TypeTableBuilder.rows of a type, after the sort by id
TypeRows(ns, t) ==
    LET members == SelectSeq([i \in 1..Len(ns) |-> ns[i]],
                             LAMBDA n : t \in Range(node_types(n)))
        rows == [i \in 1..Len(members) |->
                    [id |-> members[i].id, values |-> RowValues(members[i])]]
    IN SortByKey(rows, [i \in 1..Len(rows) |-> <<rows[i].id>>])

\* TypeTableBuilder::into_table
TypeIntoTable(columnSet, rows, sheet_name) ==
    LET columns == <<"id">> \o SortedStrings(columnSet)
    IN SheetTable(sheet_name, columns,
          [r \in 1..Len(rows) |->
              [c \in 1..Len(columns) |->
                  IF c = 1 THEN rows[r].id
                  ELSE IF columns[c] \in DOMAIN rows[r].values
                       THEN rows[r].values[columns[c]] ELSE ""]])

\* the predicates of a node that hold an array of object references
ChildPredicates(node) ==
    {p \in DOMAIN node.properties : node.properties[p].variant = "ObjectRefs"}

\* child_builders with a key for every type of the node
ChildKeysOfEveryType(ns) ==
    UNION {{<<node_types(ns[i])[k], p>> : p \in ChildPredicates(ns[i]), k \in 1..Len(node_types(ns[i]))} :
            i \in 1..Len(ns)}

\* the keys of child_builders: (first type, predicate)
ChildKeysOf(ns) ==
    UNION {{<<node_types(ns[i])[1], p>> : p \in ChildPredicates(ns[i])} : i \in 1..Len(ns)}

\* ChildTableBuilder.rows of a key, after the sort
ChildRows(ns, key) ==
    LET edges(n) ==
            IF node_types(n)[1] = key[1] /\ key[2] \in ChildPredicates(n)
            THEN [k \in 1..Len(n.properties[key[2]].refs) |->
                      <<n.id, n.properties[key[2]].refs[k]>>]
            ELSE <<>>
        rows == Concat([i \in 1..Len(ns) |-> edges(ns[i])])
    IN SortByKey(rows, rows)

\* ChildTableBuilder::into_table
ChildIntoTable(predicate, rows, sheet_name) ==
    SheetTable(sheet_name, <<"ParentId", predicate \o "Id">>, rows)

InvalidSheetChars == {":", "\\", "/", "?", "*", "[", "]", "'", "\""}

\* char::is_control, among the characters of the model
ControlChars == {"\t", "\n", "\r", "\f"}

RECURSIVE ReplaceInvalid(_)
ReplaceInvalid(raw) ==
    IF raw = "" THEN ""
    ELSE (IF CharAt(raw, 1) \in InvalidSheetChars \cup ControlChars THEN "_" ELSE CharAt(raw, 1))
            \o ReplaceInvalid(SubSeq(raw, 2, Len(raw)))

\* String::truncate
Truncate(s, n) == IF Len(s) > n THEN SubSeq(s, 1, n) ELSE s

sanitize_sheet_name(raw) ==
    LET trimmed == Trim(ReplaceInvalid(raw))
        named == IF trimmed = "" THEN "Sheet" ELSE trimmed
    IN Truncate(named, MaxSheetNameLen)

\* the loop of SheetNameRegistry::assign: the first free base_N
RECURSIVE FirstFree(_, _, _)
FirstFree(used, base, counter) ==
    LET suffix == "_" \o ToString(counter)
        candidate == Truncate(base, MaxSheetNameLen - Len(suffix)) \o suffix
    IN IF candidate \notin used THEN candidate ELSE FirstFree(used, base, counter + 1)

\* (mutant) the sanitized name, taken or not
assign_unchecked(used, raw) == sanitize_sheet_name(raw)

\* SheetNameRegistry::assign: the name given to raw when `used` is taken
assign(used, raw) ==
    LET base == sanitize_sheet_name(raw)
    IN IF base \notin used THEN base ELSE FirstFree(used, base, 1)

\* the names assigned to the raw names in turn
RECURSIVE AssignAll(_, _)
AssignAll(used, raws) ==
    IF raws = <<>> THEN <<>>
    ELSE LET name == assign(used, Head(raws))
         IN <<name>> \o AssignAll(used \cup {name}, Tail(raws))

build_entities_table(entries) == SheetTable(ENTITIES_SHEET, <<"id", "type">>, entries)

build_workbook(ns) ==
    LET entities == Concat([i \in 1..Len(ns) |->
                        [k \in 1..Len(node_types(ns[i])) |-> <<ns[i].id, node_types(ns[i])[k]>>]])
        typeNames == SortedStrings(TypeNamesOf(ns))
        childKeys == SortedPairs(ChildKeysOf(ns))
        raws == typeNames \o [k \in 1..Len(childKeys) |-> childKeys[k][1] \o "__" \o childKeys[k][2]]
        names == AssignAll({ENTITIES_SHEET, METADATA_SHEET}, raws)
        nT == Len(typeNames)
        typeTables == [k \in 1..nT |->
            TypeIntoTable(TypeColumns(ns, typeNames[k]), TypeRows(ns, typeNames[k]), names[k])]
        childTables == [k \in 1..Len(childKeys) |->
            ChildIntoTable(childKeys[k][2], ChildRows(ns, childKeys[k]), names[nT + k])]
        metadata_rows ==
            [k \in 1..nT |-> <<"type", names[k], typeNames[k], "">>]
            \o [k \in 1..Len(childKeys) |->
                    <<"child", names[nT + k], childKeys[k][1], childKeys[k][2]>>]
        tables == typeTables \o childTables
        sorted == SortByKey(tables, [k \in 1..Len(tables) |-> <<tables[k].sheet_name>>])
    IN <<build_entities_table(SortByKey(entities, entities)),
         SheetTable(METADATA_SHEET, <<"kind", "sheet", "type", "predicate">>, metadata_rows)>>
       \o sorted

----------------------------------------------------------------------------
(* Unflatten: read_nodes (aideon/tools/io/excel_read.rs).  The .xlsx file  *)
(* holds the tables as written: the range of a sheet is its header row     *)
(* followed by its data rows, every cell a string.                         *)

Ok(ns) == [ok |-> TRUE, err |-> "", nodes |-> ns]
Err(kind) == [ok |-> FALSE, err |-> kind, nodes |-> <<>>]

\* the accumulation map, keyed by (graph, id)
EmptyMap == [k \in {} |-> NodeWithGraph("", None)]
MapPut(acc, key, node) == [k \in DOMAIN acc \cup {key} |-> IF k = key THEN node ELSE acc[k]]

\* a step of a reader's loop: the map so far, or the error that ended the loop
Going(acc) == [err |-> "", acc |-> acc]
Failed(kind) == [err |-> kind, acc |-> EmptyMap]

normalize_optional(value) == IF Trim(value) = "" THEN None ELSE Some(Trim(value))

\* string_at / cell_to_string: the cell at a 0-based index, "" when missing
string_at(row, index) == IF index + 1 <= Len(row) THEN row[index + 1] ELSE ""

\* the key ensure_node looks up
NodeKey(id, raw_graph) == <<normalize_optional(raw_graph), id>>

\* ensure_node: the map with the node of (raw_graph, id) present
ensure_node(acc, id, raw_graph) ==
    LET key == NodeKey(id, raw_graph)
    IN IF key \in DOMAIN acc THEN acc ELSE MapPut(acc, key, NodeWithGraph(id, key[1]))

\* the type insert shared by initialize_nodes and ingest_type_sheet
AddType(acc, key, type_name) ==
    IF type_name # "" /\ type_name # UNTYPED_MARKER
    THEN MapPut(acc, key, [acc[key] EXCEPT !.types = @ \cup {type_name}])
    ELSE acc

\* workbook.worksheet_range(name): the sheets of that name
SheetsNamed(wb, name) == {i \in 1..Len(wb) : wb[i].sheet_name = name}
HasSheet(wb, name) == SheetsNamed(wb, name) # {}
\* read_required_sheet, the sheet being present: header row, then data rows
SheetRange(wb, name) ==
    LET t == wb[CHOOSE i \in SheetsNamed(wb, name) : \A j \in SheetsNamed(wb, name) : i <= j]
    IN <<t.columns>> \o t.rows

\* parse_metadata: the rows with a kind, and whether every kind is known
MetadataRows(range) == SelectSeq(Tail(range), LAMBDA row : string_at(row, 0) # "")
\* a metadata reader that passes over the rows of an unknown kind
MetadataKindsIgnored(range) == TRUE

MetadataKindsKnown(range) ==
    \A i \in 1..Len(MetadataRows(range)) : string_at(MetadataRows(range)[i], 0) \in {"type", "child"}
\* type_sheets: sheet -> type; a later row of the same sheet replaces an earlier one
TypeSheetMap(range) ==
    LET rows == SelectSeq(MetadataRows(range), LAMBDA row : string_at(row, 0) = "type")
        last(sheet) == CHOOSE i \in 1..Len(rows) :
                          /\ string_at(rows[i], 1) = sheet
                          /\ \A j \in 1..Len(rows) : string_at(rows[j], 1) = sheet => j <= i
    IN [sheet \in {string_at(rows[i], 1) : i \in 1..Len(rows)} |-> string_at(rows[last(sheet)], 2)]
\* child_sheets: sheet -> (type, predicate)
ChildSheetMap(range) ==
    LET rows == SelectSeq(MetadataRows(range), LAMBDA row : string_at(row, 0) = "child")
        last(sheet) == CHOOSE i \in 1..Len(rows) :
                          /\ string_at(rows[i], 1) = sheet
                          /\ \A j \in 1..Len(rows) : string_at(rows[j], 1) = sheet => j <= i
    IN [sheet \in {string_at(rows[i], 1) : i \in 1..Len(rows)} |->
            <<string_at(rows[last(sheet)], 2), string_at(rows[last(sheet)], 3)>>]

RECURSIVE InitializeFrom(_, _)
InitializeFrom(rows, acc) ==
    IF rows = <<>> THEN acc
    ELSE LET row == Head(rows)
             id == string_at(row, 0)
             key == NodeKey(id, string_at(row, 2))
         IN IF id = "" THEN InitializeFrom(Tail(rows), acc)
            ELSE InitializeFrom(Tail(rows),
                    AddType(ensure_node(acc, id, string_at(row, 2)), key, string_at(row, 1)))

initialize_nodes(range) == InitializeFrom(Tail(range), EmptyMap)

PropertyEntry(predicate, value) == [ok |-> TRUE, predicate |-> predicate, value |-> value]
PropertyEntryError == [ok |-> FALSE, predicate |-> "", value |-> PScalar(SNull)]

\* parse_property_entry
parse_property_entry(header, raw_value) ==
    IF EndsWith(header, "Id")
    THEN PropertyEntry(SubSeq(header, 1, Len(header) - 2), PObjectRef(raw_value))
    ELSE LET parsed == ParseJsonText(raw_value)
         IN IF ~parsed.ok THEN PropertyEntryError
            ELSE IF parsed.kind = "array" THEN PropertyEntry(header, PScalars(parsed.items))
            ELSE PropertyEntry(header, PScalar(parsed.scalar))

\* the 0-based index of the first column that ingest_type_sheet reads as a property
FirstPropertyColumn == 2

\* the cells of one type-sheet row, from column col_idx on
RECURSIVE IngestCells(_, _, _, _, _)
IngestCells(headers, row, col_idx, key, st) ==
    IF st.err # "" \/ col_idx + 1 > Len(row) THEN st
    ELSE LET header == string_at(headers, col_idx)
             raw_value == string_at(row, col_idx)
             entry == parse_property_entry(header, raw_value)
         IN IF col_idx + 1 > Len(headers) \/ header = "" \/ Trim(raw_value) = ""
            THEN IngestCells(headers, row, col_idx + 1, key, st)
            ELSE IF ~entry.ok THEN Failed("Json")
            ELSE IngestCells(headers, row, col_idx + 1, key,
                    Going(MapPut(st.acc, key,
                        InsertProperty(st.acc[key], entry.predicate, entry.value))))

RECURSIVE IngestTypeRows(_, _, _, _)
IngestTypeRows(headers, rows, type_name, st) ==
    IF st.err # "" \/ rows = <<>> THEN st
    ELSE LET row == Head(rows)
             id == string_at(row, 0)
             key == NodeKey(id, string_at(row, 1))
             typed == AddType(ensure_node(st.acc, id, string_at(row, 1)), key, type_name)
         IN IF id = "" THEN IngestTypeRows(headers, Tail(rows), type_name, st)
            ELSE IngestTypeRows(headers, Tail(rows), type_name,
                    IngestCells(headers, row, FirstPropertyColumn, key, Going(typed)))

ingest_type_sheet(range, type_name, st) ==
    IF Head(range) = <<>> THEN st
    ELSE IngestTypeRows(Head(range), Tail(range), type_name, st)

RECURSIVE IngestChildRows(_, _, _, _)
IngestChildRows(rows, predicate, has_graph_column, st) ==
    IF st.err # "" \/ rows = <<>> THEN st
    ELSE LET row == Head(rows)
             parent == string_at(row, 0)
             target == string_at(row, IF has_graph_column THEN 2 ELSE 1)
             raw_graph == IF has_graph_column THEN string_at(row, 1) ELSE ""
             key == NodeKey(parent, raw_graph)
             acc == ensure_node(st.acc, parent, raw_graph)
             node == acc[key]
         IN IF parent = "" \/ target = "" THEN IngestChildRows(Tail(rows), predicate, has_graph_column, st)
            ELSE IF predicate \notin DOMAIN node.properties
            THEN IngestChildRows(Tail(rows), predicate, has_graph_column,
                    Going(MapPut(acc, key, InsertProperty(node, predicate, PObjectRefs(<<target>>)))))
            ELSE IF node.properties[predicate].variant = "ObjectRefs"
            THEN IngestChildRows(Tail(rows), predicate, has_graph_column,
                    Going(MapPut(acc, key, InsertProperty(node, predicate,
                        PObjectRefs(Append(node.properties[predicate].refs, target))))))
            ELSE Failed("InvalidWorkbook")

\* a reader that takes the rows of a child sheet last to first
ingest_child_sheet_reversed(range, predicate, st) ==
    IngestChildRows([i \in 1..(Len(range) - 1) |-> range[Len(range) + 1 - i]], predicate,
                    Len(Head(range)) >= 3, st)

ingest_child_sheet(range, predicate, st) ==
    IngestChildRows(Tail(range), predicate, Len(Head(range)) >= 3, st)

\* the loop over type_sheets, in the order the HashMap yields them
RECURSIVE IngestTypeSheets(_, _, _, _)
IngestTypeSheets(wb, sheets, type_sheets, st) ==
    IF st.err # "" \/ sheets = <<>> THEN st
    ELSE IF ~HasSheet(wb, Head(sheets)) THEN Failed("InvalidWorkbook")
    ELSE IngestTypeSheets(wb, Tail(sheets), type_sheets,
            ingest_type_sheet(SheetRange(wb, Head(sheets)), type_sheets[Head(sheets)], st))

RECURSIVE IngestChildSheets(_, _, _, _)
IngestChildSheets(wb, sheets, child_sheets, st) ==
    IF st.err # "" \/ sheets = <<>> THEN st
    ELSE IF ~HasSheet(wb, Head(sheets)) THEN Failed("InvalidWorkbook")
    ELSE IngestChildSheets(wb, Tail(sheets), child_sheets,
            ingest_child_sheet(SheetRange(wb, Head(sheets)), child_sheets[Head(sheets)][2], st))

\* the nodes of the map in the order of their ids alone
SortedNodesById(acc) ==
    LET keys == {<<k[2], IF k[1] = None THEN "0" ELSE "1", IF k[1] = None THEN "" ELSE k[1][1]>> :
                    k \in DOMAIN acc}
        RECURSIVE Sorted(_)
        Sorted(K) ==
            IF K = {} THEN <<>>
            ELSE LET m == CHOOSE x \in K : \A y \in K : x = y \/ KeyLt(x, y)
                 IN <<m>> \o Sorted(K \ {m})
        ks == Sorted(keys)
    IN [i \in 1..Len(ks) |-> acc[<<IF ks[i][2] = "0" THEN None ELSE Some(ks[i][3]), ks[i][1]>>]]

\* into_values().collect() and the final sort by (graph, id)
SortedNodes(acc) ==
    LET keys == {<<IF k[1] = None THEN "0" ELSE "1", IF k[1] = None THEN "" ELSE k[1][1], k[2]>> :
                    k \in DOMAIN acc}
        RECURSIVE Sorted(_)
        Sorted(K) ==
            IF K = {} THEN <<>>
            ELSE LET m == CHOOSE x \in K : \A y \in K : x = y \/ KeyLt(x, y)
                 IN <<m>> \o Sorted(K \ {m})
        ks == Sorted(keys)
    IN [i \in 1..Len(ks) |-> acc[<<IF ks[i][1] = "0" THEN None ELSE Some(ks[i][2]), ks[i][3]>>]]

\* read_nodes, the two HashMaps being iterated in typeOrder and childOrder
read_nodes(wb, typeOrder, childOrder) ==
    IF ~HasSheet(wb, METADATA_SHEET) \/ ~HasSheet(wb, ENTITIES_SHEET) THEN Err("InvalidWorkbook")
    ELSE IF ~MetadataKindsKnown(SheetRange(wb, METADATA_SHEET)) THEN Err("InvalidWorkbook")
    ELSE LET metadata == SheetRange(wb, METADATA_SHEET)
             start == Going(initialize_nodes(SheetRange(wb, ENTITIES_SHEET)))
             typed == IngestTypeSheets(wb, typeOrder, TypeSheetMap(metadata), start)
             done == IngestChildSheets(wb, childOrder, ChildSheetMap(metadata), typed)
         IN IF done.err # "" THEN Err(done.err) ELSE Ok(SortedNodes(done.acc))

\* the orders in which a HashMap may yield the keys S
Orders(S) ==
    {f \in [1..Cardinality(S) -> S] : \A i, j \in 1..Cardinality(S) : f[i] = f[j] => i = j}

----------------------------------------------------------------------------
(* The RDF codec (io/rdf.rs).  A file in an RDF format is the sequence of  *)
(* quads handed to the serializer, which the parser yields again in the    *)
(* same order.                                                             *)

RDF_TYPE == "http://www.w3.org/1999/02/22-rdf-syntax-ns#type"
XSD_BOOLEAN == "http://www.w3.org/2001/XMLSchema#boolean"
XSD_INTEGER == "http://www.w3.org/2001/XMLSchema#integer"
XSD_DECIMAL == "http://www.w3.org/2001/XMLSchema#decimal"
XSD_DOUBLE == "http://www.w3.org/2001/XMLSchema#double"
\* the datatype Literal::datatype reports for a simple literal
XSD_STRING == "http://www.w3.org/2001/XMLSchema#string"

\* oxigraph terms
NamedNode(iri) == [kind |-> "NamedNode", value |-> iri, datatype |-> "", language |-> ""]
BlankNode(label) == [kind |-> "BlankNode", value |-> label, datatype |-> "", language |-> ""]
Literal(value, datatype, language) ==
    [kind |-> "Literal", value |-> value, datatype |-> datatype, language |-> language]
DefaultGraph == [kind |-> "DefaultGraph", value |-> "", datatype |-> "", language |-> ""]
Quad(subject, predicate, object, graph_name) ==
    [subject |-> subject, predicate |-> predicate, object |-> object, graph_name |-> graph_name]

IsDigit(c) == CodeOf(c) >= 48 /\ CodeOf(c) <= 57
IsAlpha(c) == (CodeOf(c) >= 65 /\ CodeOf(c) <= 90) \/ (CodeOf(c) >= 97 /\ CodeOf(c) <= 122)

\* characters no IRI may hold
IriForbidden == {" ", "<", ">", "\"", "{", "}", "|", "\\", "^"}

\* NamedNode::new succeeds: an absolute IRI, scheme ":" rest
IriParses(s) ==
    \E k \in 2..Len(s) :
        /\ CharAt(s, k) = ":"
        /\ IsAlpha(CharAt(s, 1))
        /\ \A i \in 2..(k - 1) :
              IsAlpha(CharAt(s, i)) \/ IsDigit(CharAt(s, i)) \/ CharAt(s, i) \in {"+", "-", "."}
        /\ \A i \in (k + 1)..Len(s) : CharAt(s, i) \in Chars \ IriForbidden

\* BlankNode::new succeeds: a non-empty label of name characters
BlankIdParses(s) ==
    /\ Len(s) > 0
    /\ IsAlpha(CharAt(s, 1)) \/ IsDigit(CharAt(s, 1)) \/ CharAt(s, 1) \in {"_", ":"}
    /\ \A i \in 2..Len(s) :
          IsAlpha(CharAt(s, i)) \/ IsDigit(CharAt(s, i)) \/ CharAt(s, i) \in {"_", ":", "-", "."}
    /\ CharAt(s, Len(s)) # "."

\* a term, or the error kind that a conversion returned
TermOk(term) == [err |-> "", term |-> term]
TermErr(kind) == [err |-> kind, term |-> DefaultGraph]

id_to_subject(id) ==
    IF StartsWith(id, "_:")
    THEN IF BlankIdParses(SubSeq(id, 3, Len(id)))
         THEN TermOk(BlankNode(SubSeq(id, 3, Len(id)))) ELSE TermErr("Rdf")
    ELSE IF IriParses(id) THEN TermOk(NamedNode(id)) ELSE TermErr("InvalidIri")

id_to_term(id) ==
    IF StartsWith(id, "_:")
    THEN IF BlankIdParses(SubSeq(id, 3, Len(id)))
         THEN TermOk(BlankNode(SubSeq(id, 3, Len(id)))) ELSE TermErr("Rdf")
    ELSE IF IriParses(id) THEN TermOk(NamedNode(id)) ELSE TermErr("InvalidIri")

graph_to_name(graph) ==
    IF graph = None THEN TermOk(DefaultGraph)
    ELSE IF StartsWith(graph[1], "_:")
    THEN IF BlankIdParses(SubSeq(graph[1], 3, Len(graph[1])))
         THEN TermOk(BlankNode(SubSeq(graph[1], 3, Len(graph[1])))) ELSE TermErr("Rdf")
    ELSE IF IriParses(graph[1]) THEN TermOk(NamedNode(graph[1])) ELSE TermErr("InvalidIri")

\* f64::to_string of a whole number: no fraction, no exponent
NumberToString(n) == ToString(n)

\* scalar_to_term with Null written as a literal
scalar_to_term_null_literal(value) ==
    CASE value.tag = "String" -> Some(Literal(value.s, XSD_STRING, ""))
      [] value.tag = "Number" -> Some(Literal(NumberToString(value.n), XSD_DOUBLE, ""))
      [] value.tag = "Boolean" ->
            Some(Literal(IF value.b THEN "true" ELSE "false", XSD_BOOLEAN, ""))
      [] OTHER -> Some(Literal("null", XSD_STRING, ""))

\* scalar_to_term: Option<Term>
scalar_to_term(value) ==
    CASE value.tag = "String" -> Some(Literal(value.s, XSD_STRING, ""))
      [] value.tag = "Number" -> Some(Literal(NumberToString(value.n), XSD_DOUBLE, ""))
      [] value.tag = "Boolean" ->
            Some(Literal(IF value.b THEN "true" ELSE "false", XSD_BOOLEAN, ""))
      [] OTHER -> None

\* the formats whose serializer accepts quads outside the default graph
DatasetFormats == {"NQuads", "TriG", "JsonLd"}
RdfFormats == {"Turtle", "NTriples", "NQuads", "TriG", "JsonLd"}

\* one step of write_rdf: an error, or the quads (none or one) it serialized
StepFail(kind) == [err |-> kind, quads |-> <<>>]
StepEmit(qs) == [err |-> "", quads |-> qs]

\* serializer.serialize_quad
serialize_quad(quad, format) ==
    IF quad.graph_name # DefaultGraph /\ format \notin DatasetFormats
    THEN StepFail("Rdf") ELSE StepEmit(<<quad>>)

\* write_rdf, the loop over node.types
TypeSteps(node, subject, graph_name, format) ==
    LET ts == SortedStrings(node.types)
    IN [i \in 1..Len(ts) |->
           IF IriParses(ts[i])
           THEN serialize_quad(Quad(subject, RDF_TYPE, NamedNode(ts[i]), graph_name), format)
           ELSE StepFail("Rdf")]

ScalarSteps(subject, predicate, items, graph_name, format) ==
    Concat([i \in 1..Len(items) |->
        IF scalar_to_term(items[i]) = None THEN <<>>
        ELSE <<serialize_quad(Quad(subject, predicate, scalar_to_term(items[i])[1], graph_name),
                              format)>>])

RefSteps(subject, predicate, targets, graph_name, format) ==
    [i \in 1..Len(targets) |->
        IF id_to_term(targets[i]).err # "" THEN StepFail(id_to_term(targets[i]).err)
        ELSE serialize_quad(Quad(subject, predicate, id_to_term(targets[i]).term, graph_name),
                            format)]

\* write_rdf, the loop over node.properties
PropertySteps(node, subject, graph_name, format) ==
    LET ps == SortedStrings(DOMAIN node.properties)
    IN Concat([i \in 1..Len(ps) |->
           LET value == node.properties[ps[i]]
           IN IF ~IriParses(ps[i]) THEN <<StepFail("Rdf")>>
              ELSE CASE value.variant = "Scalar" ->
                            ScalarSteps(subject, ps[i], <<value.scalar>>, graph_name, format)
                     [] value.variant = "ObjectRef" ->
                            RefSteps(subject, ps[i], <<value.ref>>, graph_name, format)
                     [] value.variant = "Scalars" ->
                            ScalarSteps(subject, ps[i], value.scalars, graph_name, format)
                     [] OTHER -> RefSteps(subject, ps[i], value.refs, graph_name, format)])

\* the body of the loop with a quad that declares the node itself
NodeStepsDeclaring(node, format) ==
    LET subject == id_to_subject(node.id)
        graph_name == graph_to_name(node.graph)
    IN IF subject.err # "" THEN <<StepFail(subject.err)>>
       ELSE IF graph_name.err # "" THEN <<StepFail(graph_name.err)>>
       ELSE <<serialize_quad(Quad(subject.term, "urn:declared", Literal("", XSD_STRING, ""),
                                  graph_name.term), format)>>
                \o TypeSteps(node, subject.term, graph_name.term, format)
                \o PropertySteps(node, subject.term, graph_name.term, format)

\* write_rdf, the body of the loop over the nodes
NodeSteps(node, format) ==
    LET subject == id_to_subject(node.id)
        graph_name == graph_to_name(node.graph)
    IN IF subject.err # "" THEN <<StepFail(subject.err)>>
       ELSE IF graph_name.err # "" THEN <<StepFail(graph_name.err)>>
       ELSE TypeSteps(node, subject.term, graph_name.term, format)
                \o PropertySteps(node, subject.term, graph_name.term, format)

\* the file after the steps: the quads serialized before the first error
RECURSIVE RunSteps(_, _)
RunSteps(steps, written) ==
    IF steps = <<>> THEN [ok |-> TRUE, err |-> "", quads |-> written]
    ELSE IF Head(steps).err # "" THEN [ok |-> FALSE, err |-> Head(steps).err, quads |-> written]
    ELSE RunSteps(Tail(steps), written \o Head(steps).quads)

\* write_rdf: the result and the quads that reached the file
write_rdf(ns, format) ==
    RunSteps(Concat([i \in 1..Len(ns) |-> NodeSteps(ns[i], format)]), <<>>)

subject_to_id(subject) ==
    IF subject.kind = "NamedNode" THEN subject.value ELSE "_:" \o subject.value

\* a reading of graph names that puts every quad in the default graph
graph_name_to_string_default(name) == None

graph_name_to_string(name) ==
    CASE name.kind = "DefaultGraph" -> None
      [] name.kind = "NamedNode" -> Some(name.value)
      [] OTHER -> Some("_:" \o name.value)

\* the value of a string of digits
RECURSIVE DigitsValue(_, _)
DigitsValue(s, acc) ==
    IF s = "" THEN acc
    ELSE DigitsValue(SubSeq(s, 2, Len(s)), 10 * acc + (CodeOf(CharAt(s, 1)) - 48))

AllDigits(s) == \A i \in 1..Len(s) : IsDigit(CharAt(s, i))
AllZeros(s) == \A i \in 1..Len(s) : CharAt(s, i) = "0"

\* str::parse::<f64> on the texts of whole numbers: an optional sign, digits,
\* an optional fraction of zeros; None for a text that is no number
ParseF64(text) ==
    LET signed == Len(text) > 0 /\ CharAt(text, 1) \in {"+", "-"}
        body == IF signed THEN SubSeq(text, 2, Len(text)) ELSE text
        dot == IndexFrom(body, ".", 1)
        whole == IF dot = 0 THEN body ELSE SubSeq(body, 1, dot - 1)
        fraction == IF dot = 0 THEN "" ELSE SubSeq(body, dot + 1, Len(body))
    IN IF whole \o fraction # "" /\ AllDigits(whole) /\ AllZeros(fraction)
       THEN Some(IF signed /\ CharAt(text, 1) = "-" THEN 0 - DigitsValue(whole, 0)
                 ELSE DigitsValue(whole, 0))
       ELSE None

\* a scalar, or the error kind
ScalarOk(sv) == [err |-> "", scalar |-> sv]
ScalarErr(kind) == [err |-> kind, scalar |-> SNull]

literal_to_scalar(literal) ==
    IF literal.language # "" THEN ScalarOk(SString(literal.value \o "@" \o literal.language))
    ELSE CASE literal.datatype = XSD_BOOLEAN ->
                  ScalarOk(SBoolean(literal.value \in {"true", "1"}))
           [] literal.datatype \in {XSD_INTEGER, XSD_DECIMAL, XSD_DOUBLE} ->
                  IF ParseF64(literal.value) = None THEN ScalarErr("Rdf")
                  ELSE ScalarOk(SNumber(ParseF64(literal.value)[1]))
           [] OTHER -> ScalarOk(SString(literal.value))

\* a property value, or the error kind
term_to_property(term) ==
    CASE term.kind = "NamedNode" -> [err |-> "", value |-> PObjectRef(term.value)]
      [] term.kind = "BlankNode" -> [err |-> "", value |-> PObjectRef("_:" \o term.value)]
      [] OTHER -> [err |-> literal_to_scalar(term).err,
                   value |-> PScalar(literal_to_scalar(term).scalar)]

\* merge_property with every arm replacing the stored value
merge_property_replacing(node, predicate, value) == InsertProperty(node, predicate, value)

\* merge_property with the last arm keeping the stored value
merge_property_keeping(node, predicate, value) ==
    IF predicate \notin DOMAIN node.properties THEN InsertProperty(node, predicate, value)
    ELSE LET existing == node.properties[predicate]
         IN IF existing.variant \in {"Scalar", "Scalars"} /\ value.variant = "Scalar"
            THEN InsertProperty(node, predicate,
                     PScalars((IF existing.variant = "Scalar" THEN <<existing.scalar>>
                               ELSE existing.scalars) \o <<value.scalar>>))
            ELSE IF existing.variant \in {"ObjectRef", "ObjectRefs"} /\ value.variant = "ObjectRef"
            THEN InsertProperty(node, predicate,
                     PObjectRefs((IF existing.variant = "ObjectRef" THEN <<existing.ref>>
                                  ELSE existing.refs) \o <<value.ref>>))
            ELSE node

\* merge_property that does not store a value a second time
merge_property_deduplicating(node, predicate, value) ==
    IF predicate \notin DOMAIN node.properties THEN InsertProperty(node, predicate, value)
    ELSE LET existing == node.properties[predicate]
         IN CASE existing.variant = "Scalar" /\ value.variant = "Scalar" ->
                    IF existing.scalar = value.scalar THEN node
                    ELSE InsertProperty(node, predicate,
                                        PScalars(<<existing.scalar, value.scalar>>))
              [] existing.variant = "ObjectRef" /\ value.variant = "ObjectRef" ->
                    IF existing.ref = value.ref THEN node
                    ELSE InsertProperty(node, predicate, PObjectRefs(<<existing.ref, value.ref>>))
              [] existing.variant = "Scalars" /\ value.variant = "Scalar" ->
                    IF value.scalar \in Range(existing.scalars) THEN node
                    ELSE InsertProperty(node, predicate,
                                        PScalars(Append(existing.scalars, value.scalar)))
              [] existing.variant = "ObjectRefs" /\ value.variant = "ObjectRef" ->
                    IF value.ref \in Range(existing.refs) THEN node
                    ELSE InsertProperty(node, predicate,
                                        PObjectRefs(Append(existing.refs, value.ref)))
              [] OTHER -> InsertProperty(node, predicate, value)

\* merge_property: the cardinality promotion of a repeated predicate
merge_property(node, predicate, value) ==
    IF predicate \notin DOMAIN node.properties THEN InsertProperty(node, predicate, value)
    ELSE LET existing == node.properties[predicate]
         IN CASE existing.variant = "Scalar" /\ value.variant = "Scalar" ->
                    InsertProperty(node, predicate, PScalars(<<existing.scalar, value.scalar>>))
              [] existing.variant = "ObjectRef" /\ value.variant = "ObjectRef" ->
                    InsertProperty(node, predicate, PObjectRefs(<<existing.ref, value.ref>>))
              [] existing.variant = "Scalars" /\ value.variant = "Scalar" ->
                    InsertProperty(node, predicate,
                                   PScalars(Append(existing.scalars, value.scalar)))
              [] existing.variant = "ObjectRefs" /\ value.variant = "ObjectRef" ->
                    InsertProperty(node, predicate, PObjectRefs(Append(existing.refs, value.ref)))
              [] existing.variant = "Scalars" /\ value.variant = "Scalars" ->
                    InsertProperty(node, predicate, PScalars(existing.scalars \o value.scalars))
              [] existing.variant = "ObjectRefs" /\ value.variant = "ObjectRefs" ->
                    InsertProperty(node, predicate, PObjectRefs(existing.refs \o value.refs))
              [] OTHER -> InsertProperty(node, predicate, value)

\* read_rdf, the body of the loop over the parsed quads
ingest_quad(state, quad) ==
    IF state.err # "" THEN state
    ELSE LET subject_id == subject_to_id(quad.subject)
             graph_name == graph_name_to_string(quad.graph_name)
             key == <<graph_name, subject_id>>
             acc == IF key \in DOMAIN state.acc THEN state.acc
                    ELSE MapPut(state.acc, key, NodeWithGraph(subject_id, graph_name))
             node == [acc[key] EXCEPT !.graph = graph_name]
             property == term_to_property(quad.object)
         IN IF quad.predicate = RDF_TYPE
            THEN IF quad.object.kind = "NamedNode"
                 THEN Going(MapPut(acc, key,
                                   [node EXCEPT !.types = @ \cup {quad.object.value}]))
                 ELSE Going(MapPut(acc, key, node))
            ELSE IF property.err # "" THEN Failed(property.err)
            ELSE Going(MapPut(acc, key, merge_property(node, quad.predicate, property.value)))

\* the accumulation map after the quads, or the error that ended the loop
RECURSIVE IngestQuads(_, _)
IngestQuads(state, qs) ==
    IF qs = <<>> THEN state ELSE IngestQuads(ingest_quad(state, Head(qs)), Tail(qs))

\* read_rdf on a file holding the quads qs
read_rdf(qs) ==
    LET done == IngestQuads(Going(EmptyMap), qs)
    IN IF done.err # "" THEN Err(done.err) ELSE Ok(SortedNodes(done.acc))

----------------------------------------------------------------------------
(* The JSON-LD codec (io/jsonld.rs).  A serde_json::Value is a record with *)
(* a kind; an object is the sequence of its entries in the order           *)
(* serde_json::Map iterates them (sorted by key).                          *)

JNull == [k |-> "null", s |-> "", n |-> 0, b |-> FALSE, a |-> <<>>]
JBool(x) == [k |-> "bool", s |-> "", n |-> 0, b |-> x, a |-> <<>>]
\* a number written without a fraction, and one written as a float
JInt(x) == [k |-> "number", s |-> "", n |-> x, b |-> FALSE, a |-> <<>>]
JFloat(x) == [k |-> "number", s |-> "", n |-> x, b |-> TRUE, a |-> <<>>]
JString(x) == [k |-> "string", s |-> x, n |-> 0, b |-> FALSE, a |-> <<>>]
JArray(items) == [k |-> "array", s |-> "", n |-> 0, b |-> FALSE, a |-> items]
JObject(entries) == [k |-> "object", s |-> "", n |-> 0, b |-> FALSE, a |-> entries]
Entry(key, val) == [key |-> key, val |-> val]

\* Map::keys, Map::contains_key, Map::get
Keys(object) == {object.a[i].key : i \in 1..Len(object.a)}
HasKey(object, key) == key \in Keys(object)
Get(object, key) == (CHOOSE e \in Range(object.a) : e.key = key).val
\* object.get(key).and_then(Value::as_str)
GetStr(object, key) ==
    IF HasKey(object, key) /\ Get(object, key).k = "string" THEN Some(Get(object, key).s)
    ELSE None

\* serde_json::to_string
RECURSIVE ToJsonText(_)
ToJsonText(v) ==
    CASE v.k = "null" -> "null"
      [] v.k = "bool" -> IF v.b THEN "true" ELSE "false"
      [] v.k = "number" -> IF v.b THEN NumberToJsonText(v.n) ELSE ToString(v.n)
      [] v.k = "string" -> "\"" \o v.s \o "\""
      [] v.k = "array" -> "[" \o Join([i \in 1..Len(v.a) |-> ToJsonText(v.a[i])], ",") \o "]"
      [] OTHER ->
            "{" \o Join([i \in 1..Len(v.a) |->
                            "\"" \o v.a[i].key \o "\":" \o ToJsonText(v.a[i].val)], ",") \o "}"

\* ActiveContext, and Option<&ActiveContext> as None / Some(context)
ActiveContext(vocab, term_map, id_properties) ==
    [vocab |-> vocab, term_map |-> term_map, id_properties |-> id_properties]
DefaultContext == ActiveContext(None, [t \in {} |-> ""], {})
UnwrapOrDefault(parent) == IF parent = None THEN DefaultContext ELSE parent[1]

\* looks_like_iri: Iri::new succeeds
looks_like_iri(value) == IriParses(value)

default_vocab_expansion(context, term) ==
    IF context.vocab = None THEN None ELSE Some(context.vocab[1] \o term)

\* str::split_once(':'): the index of the first colon, or 0
ColonAt(value) == IndexFrom(value, ":", 1)

expand_compact_iri(context, value) ==
    IF ColonAt(value) = 0 THEN None
    ELSE IF SubSeq(value, 1, ColonAt(value) - 1) \in DOMAIN context.term_map
    THEN Some(context.term_map[SubSeq(value, 1, ColonAt(value) - 1)]
                \o SubSeq(value, ColonAt(value) + 1, Len(value)))
    ELSE None

expand_context_reference(context, value) ==
    IF looks_like_iri(value) THEN value
    ELSE IF expand_compact_iri(context, value) # None THEN expand_compact_iri(context, value)[1]
    ELSE IF default_vocab_expansion(context, value) # None
    THEN default_vocab_expansion(context, value)[1]
    ELSE value

expand_term(context, term) ==
    IF StartsWith(term, "@") \/ looks_like_iri(term) THEN term
    ELSE IF context = None THEN term
    ELSE IF term \in DOMAIN context[1].term_map THEN context[1].term_map[term]
    ELSE IF expand_compact_iri(context[1], term) # None
    THEN expand_compact_iri(context[1], term)[1]
    ELSE IF default_vocab_expansion(context[1], term) # None
    THEN default_vocab_expansion(context[1], term)[1]
    ELSE term

remove_term_definition(context, term) ==
    IF term \in DOMAIN context.term_map
    THEN [context EXCEPT
            !.term_map = [t \in DOMAIN context.term_map \ {term} |-> context.term_map[t]],
            !.id_properties = @ \ {context.term_map[term]}]
    ELSE context

update_term_definition(context, term, expanded, is_id_type) ==
    [context EXCEPT
        !.term_map = [t \in DOMAIN context.term_map \cup {term} |->
                        IF t = term THEN expanded ELSE context.term_map[t]],
        !.id_properties = IF is_id_type THEN @ \cup {expanded} ELSE @ \ {expanded}]

\* a context, or the error kind
ContextOk(context) == [err |-> "", context |-> context]
ContextErr == [err |-> "JsonLd", context |-> DefaultContext]

parse_context_term(term, definition, context) ==
    CASE definition.k = "null" -> ContextOk(remove_term_definition(context, term))
      [] definition.k = "string" ->
            ContextOk(update_term_definition(
                context, term, expand_context_reference(context, definition.s), FALSE))
      [] definition.k = "object" ->
            IF HasKey(definition, "@id") /\ Get(definition, "@id").k \notin {"null", "string"}
            THEN ContextErr
            ELSE LET defined ==
                        IF ~HasKey(definition, "@id") THEN context
                        ELSE IF Get(definition, "@id").k = "null"
                        THEN remove_term_definition(context, term)
                        ELSE update_term_definition(
                                 context, term,
                                 expand_context_reference(context, Get(definition, "@id").s),
                                 FALSE)
                     expanded ==
                        IF ~HasKey(definition, "@id")
                        THEN IF term \in DOMAIN context.term_map
                             THEN Some(context.term_map[term])
                             ELSE default_vocab_expansion(context, term)
                        ELSE IF Get(definition, "@id").k = "null" THEN None
                        ELSE Some(expand_context_reference(context, Get(definition, "@id").s))
                     is_id_type == GetStr(definition, "@type") = Some("@id")
                 IN IF GetStr(definition, "@type") = None THEN ContextOk(defined)
                    ELSE IF expanded # None
                    THEN ContextOk(update_term_definition(defined, term, expanded[1], is_id_type))
                    ELSE IF is_id_type
                    THEN ContextOk(update_term_definition(
                             defined, term,
                             IF default_vocab_expansion(defined, term) # None
                             THEN default_vocab_expansion(defined, term)[1] ELSE term,
                             TRUE))
                    ELSE ContextOk(defined)
      [] OTHER -> ContextErr

\* parse_context_object, the loop over the term definitions
RECURSIVE ContextTerms(_, _)
ContextTerms(entries, state) ==
    IF entries = <<>> \/ state.err # "" THEN state
    ELSE IF StartsWith(Head(entries).key, "@") THEN ContextTerms(Tail(entries), state)
    ELSE ContextTerms(Tail(entries),
                      parse_context_term(Head(entries).key, Head(entries).val, state.context))

parse_context_object(object, parent) ==
    LET context == UnwrapOrDefault(parent)
    IN IF HasKey(object, "@vocab") /\ Get(object, "@vocab").k \notin {"null", "string"}
       THEN ContextErr
       ELSE ContextTerms(object.a,
                ContextOk(IF ~HasKey(object, "@vocab") THEN context
                          ELSE IF Get(object, "@vocab").k = "null"
                          THEN [context EXCEPT !.vocab = None]
                          ELSE [context EXCEPT !.vocab = Some(Get(object, "@vocab").s)]))

RECURSIVE parse_context_value(_, _)
\* parse_context_value, the loop over the entries of an array
RECURSIVE ContextEntries(_, _)
ContextEntries(values, state) ==
    IF values = <<>> \/ state.err # "" THEN state
    ELSE ContextEntries(Tail(values), parse_context_value(Head(values), Some(state.context)))

parse_context_value(value, parent) ==
    CASE value.k = "null" -> ContextOk(DefaultContext)
      [] value.k = "array" -> ContextEntries(value.a, ContextOk(UnwrapOrDefault(parent)))
      [] value.k = "object" -> parse_context_object(value, parent)
      [] OTHER -> ContextErr

\* extract_scalar
extract_scalar(value) ==
    CASE value.k = "null" -> SNull
      [] value.k = "bool" -> SBoolean(value.b)
      [] value.k = "number" -> SNumber(value.n)
      [] value.k = "string" -> SString(value.s)
      [] OTHER -> SString(ToJsonText(value))

\* a property value, or the error kind
ValueOk(value) == [err |-> "", value |-> value]
ValueErr == [err |-> "JsonLd", value |-> PScalar(SNull)]

\* collect_array_entry: the two vectors with the parsed member added
collect_array_entry(value, lists) ==
    CASE value.variant = "Scalar" -> [lists EXCEPT !.scalars = Append(@, value.scalar)]
      [] value.variant = "ObjectRef" -> [lists EXCEPT !.refs = Append(@, value.ref)]
      [] value.variant = "Scalars" -> [lists EXCEPT !.scalars = @ \o value.scalars]
      [] OTHER -> [lists EXCEPT !.refs = @ \o value.refs]

\* parse_array and parse_property_value call each other
RECURSIVE parse_array(_, _, _)
RECURSIVE parse_property_value(_, _, _)

\* parse_array, the loop over the members
RECURSIVE ArrayEntries(_, _, _, _)
ArrayEntries(values, context, treat_as_id, lists) ==
    IF values = <<>> \/ lists.err # "" THEN lists
    ELSE LET entry == Head(values)
             failed == [lists EXCEPT !.err = "JsonLd"]
             nested ==
                CASE entry.k = "array" -> parse_array(entry.a, context, treat_as_id)
                  [] entry.k = "object" /\ HasKey(entry, "@set") ->
                        parse_property_value(Get(entry, "@set"), context, treat_as_id)
                  [] entry.k = "object" /\ HasKey(entry, "@list") ->
                        parse_property_value(Get(entry, "@list"), context, treat_as_id)
                  [] OTHER -> ValueErr
             next ==
                CASE entry.k = "array"
                        \/ (entry.k = "object" /\ (HasKey(entry, "@set") \/ HasKey(entry, "@list"))) ->
                        IF nested.err # "" THEN failed
                        ELSE collect_array_entry(nested.value, lists)
                  [] entry.k = "object" /\ HasKey(entry, "@id") ->
                        IF GetStr(entry, "@id") = None THEN failed
                        ELSE [lists EXCEPT !.refs =
                                Append(@, IF treat_as_id
                                          THEN expand_term(context, GetStr(entry, "@id")[1])
                                          ELSE GetStr(entry, "@id")[1])]
                  [] entry.k = "object" /\ HasKey(entry, "@value") ->
                        [lists EXCEPT !.scalars = Append(@, extract_scalar(Get(entry, "@value")))]
                  [] entry.k = "object" ->
                        [lists EXCEPT !.scalars = Append(@, SString(ToJsonText(entry)))]
                  [] entry.k = "string" /\ (treat_as_id \/ looks_like_iri(entry.s)) ->
                        [lists EXCEPT !.refs =
                            Append(@, IF treat_as_id THEN expand_term(context, entry.s)
                                      ELSE entry.s)]
                  [] OTHER -> [lists EXCEPT !.scalars = Append(@, extract_scalar(entry))]
         IN ArrayEntries(Tail(values), context, treat_as_id, next)

parse_array(values, context, treat_as_id) ==
    LET lists == ArrayEntries(values, context, treat_as_id,
                              [err |-> "", scalars |-> <<>>, refs |-> <<>>])
    IN IF lists.err # "" THEN ValueErr
       ELSE IF lists.scalars # <<>> /\ lists.refs = <<>> THEN ValueOk(PScalars(lists.scalars))
       ELSE IF lists.scalars = <<>> /\ lists.refs # <<>> THEN ValueOk(PObjectRefs(lists.refs))
       ELSE IF lists.scalars = <<>> /\ lists.refs = <<>> THEN ValueOk(PScalars(<<>>))
       ELSE ValueErr

parse_property_value(value, context, treat_as_id) ==
    CASE value.k = "null" -> ValueOk(PScalar(SNull))
      [] value.k = "bool" -> ValueOk(PScalar(SBoolean(value.b)))
      [] value.k = "number" -> ValueOk(PScalar(SNumber(value.n)))
      [] value.k = "string" ->
            IF treat_as_id THEN ValueOk(PObjectRef(expand_term(context, value.s)))
            ELSE IF looks_like_iri(value.s) THEN ValueOk(PObjectRef(value.s))
            ELSE ValueOk(PScalar(SString(value.s)))
      [] value.k = "array" -> parse_array(value.a, context, treat_as_id)
      [] OTHER ->
            IF HasKey(value, "@set")
            THEN parse_property_value(Get(value, "@set"), context, treat_as_id)
            ELSE IF HasKey(value, "@list")
            THEN parse_property_value(Get(value, "@list"), context, treat_as_id)
            ELSE IF GetStr(value, "@id") # None
            THEN ValueOk(PObjectRef(IF treat_as_id THEN expand_term(context, GetStr(value, "@id")[1])
                                    ELSE GetStr(value, "@id")[1]))
            ELSE IF HasKey(value, "@value")
            THEN parse_property_value(Get(value, "@value"), context, treat_as_id)
            ELSE ValueOk(PScalar(SString(ToJsonText(value))))

\* Uuid::new_v5 as text: one code per byte of the name, so that two names
\* give one id only when they are equal
RECURSIVE Uuid5(_)
Uuid5(name) ==
    IF name = "" THEN ""
    ELSE ToString(CodeOf(CharAt(name, 1))) \o "-" \o Uuid5(SubSeq(name, 2, Len(name)))

\* canonicalise_object with @context left among the entries
canonicalise_object_with_context(object) ==
    LET keys == SortedStrings(Keys(object) \ {"@graph"})
    IN "{" \o Join([i \in 1..Len(keys) |->
                       "\"" \o keys[i] \o "\":" \o ToJsonText(Get(object, keys[i]))], ",") \o "}"

canonicalise_object(object) ==
    LET keys == SortedStrings(Keys(object) \ {"@context", "@graph"})
    IN "{" \o Join([i \in 1..Len(keys) |->
                       "\"" \o keys[i] \o "\":" \o ToJsonText(Get(object, keys[i]))], ",") \o "}"

generate_surrogate_id(object) == "urn:uuid:" \o Uuid5(canonicalise_object(object))

has_node_properties(object) == Keys(object) \ {"@id", "@graph", "@context"} # {}

\* parse_node_object, the @type entry: the node, or the error kind
NodeTypes(object, context, node) ==
    IF ~HasKey(object, "@type") THEN [err |-> "", node |-> node]
    ELSE CASE Get(object, "@type").k = "array" ->
                  [err |-> "",
                   node |-> [node EXCEPT !.types = @ \cup
                                {expand_term(context, e.s) :
                                    e \in {x \in Range(Get(object, "@type").a) : x.k = "string"}}]]
           [] Get(object, "@type").k = "string" ->
                  [err |-> "",
                   node |-> [node EXCEPT !.types =
                                @ \cup {expand_term(context, Get(object, "@type").s)}]]
           [] OTHER -> [err |-> "JsonLd", node |-> node]

\* parse_node_object, the loop over the entries of the object
RECURSIVE NodeEntries(_, _, _)
NodeEntries(entries, context, state) ==
    IF entries = <<>> \/ state.err # "" THEN state
    ELSE IF Head(entries).key \in {"@id", "@type", "@context", "@graph"}
    THEN NodeEntries(Tail(entries), context, state)
    ELSE Bind(expand_term(context, Head(entries).key), LAMBDA expanded_key :
         Bind(parse_property_value(Head(entries).val, context,
                  context # None /\ expanded_key \in context[1].id_properties),
              LAMBDA property_value :
                NodeEntries(Tail(entries), context,
                    IF property_value.err # "" THEN [state EXCEPT !.err = "JsonLd"]
                    ELSE [state EXCEPT
                            !.node = InsertProperty(@, expanded_key, property_value.value)])))

parse_node_object(object, active_graph, context, state) ==
    Bind(IF GetStr(object, "@id") = None \/ GetStr(object, "@id") = Some("")
         THEN generate_surrogate_id(object) ELSE GetStr(object, "@id")[1],
         LAMBDA id :
           Bind(NodeEntries(object.a, context,
                    NodeTypes(object, context,
                        IF <<active_graph, id>> \in DOMAIN state.acc
                        THEN [state.acc[<<active_graph, id>>] EXCEPT !.graph = active_graph]
                        ELSE NodeWithGraph(id, active_graph))),
                LAMBDA done :
                  IF done.err # "" THEN Failed(done.err)
                  ELSE Going(MapPut(state.acc, <<active_graph, id>>, done.node))))

RECURSIVE parse_entry(_, _, _, _)

\* the loop with the context of an entry kept for the entries after it
RECURSIVE EntriesSharingContext(_, _, _, _)
EntriesSharingContext(values, active_graph, context, state) ==
    IF values = <<>> \/ state.err # "" THEN state
    ELSE EntriesSharingContext(
             Tail(values), active_graph,
             IF Head(values).k = "object" /\ HasKey(Head(values), "@context")
             THEN Some(parse_context_value(Get(Head(values), "@context"), context).context)
             ELSE context,
             parse_entry(Head(values), active_graph, context, state))

\* the loops of parse_jsonld_document, parse_graph and parse_entry over an array
RECURSIVE Entries(_, _, _, _)
Entries(values, active_graph, context, state) ==
    IF values = <<>> \/ state.err # "" THEN state
    ELSE Entries(Tail(values), active_graph, context,
                 parse_entry(Head(values), active_graph, context, state))

parse_graph(value, active_graph, context, state) ==
    CASE value.k = "array" -> Entries(value.a, active_graph, context, state)
      [] value.k = "object" -> parse_entry(value, active_graph, context, state)
      [] value.k = "null" -> state
      [] OTHER -> Failed("JsonLd")

\* parse_entry with a graph object registered in the graph it names
parse_entry_in_named_graph(value, active_graph, context, state) ==
    CASE value.k = "object" ->
            Bind(IF HasKey(value, "@context")
                 THEN parse_context_value(Get(value, "@context"), context)
                 ELSE ContextOk(DefaultContext),
                 LAMBDA local :
                   Bind(IF HasKey(value, "@context") THEN Some(local.context) ELSE context,
                        LAMBDA context_to_use :
                          IF local.err # "" THEN Failed(local.err)
                          ELSE Bind(IF HasKey(value, "@graph")
                                    THEN parse_graph(Get(value, "@graph"), GetStr(value, "@id"),
                                                     context_to_use, state)
                                    ELSE state,
                                    LAMBDA nested :
                                      IF nested.err # "" THEN nested
                                      ELSE IF ~HasKey(value, "@graph")
                                      THEN parse_node_object(value, active_graph,
                                                             context_to_use, nested)
                                      ELSE IF has_node_properties(value)
                                      THEN parse_node_object(value, GetStr(value, "@id"),
                                                             context_to_use, nested)
                                      ELSE nested)))
      [] value.k = "array" -> Entries(value.a, active_graph, context, state)
      [] OTHER -> Failed("JsonLd")

parse_entry(value, active_graph, context, state) ==
    CASE value.k = "object" ->
            Bind(IF HasKey(value, "@context")
                 THEN parse_context_value(Get(value, "@context"), context)
                 ELSE ContextOk(DefaultContext),
                 LAMBDA local :
                   Bind(IF HasKey(value, "@context") THEN Some(local.context) ELSE context,
                        LAMBDA context_to_use :
                          IF local.err # "" THEN Failed(local.err)
                          ELSE Bind(IF HasKey(value, "@graph")
                                    THEN parse_graph(Get(value, "@graph"), GetStr(value, "@id"),
                                                     context_to_use, state)
                                    ELSE state,
                                    LAMBDA nested :
                                      IF nested.err # "" THEN nested
                                      ELSE IF ~HasKey(value, "@graph") \/ has_node_properties(value)
                                      THEN parse_node_object(value, active_graph,
                                                             context_to_use, nested)
                                      ELSE nested)))
      [] value.k = "array" -> Entries(value.a, active_graph, context, state)
      [] OTHER -> Failed("JsonLd")

parse_jsonld_document(document) ==
    Bind(IF document.k = "object" /\ HasKey(document, "@context")
         THEN parse_context_value(Get(document, "@context"), None)
         ELSE ContextOk(DefaultContext),
         LAMBDA base :
           Bind(CASE document.k = "array" -> Entries(document.a, None, None, Going(EmptyMap))
                  [] document.k = "object" ->
                        IF base.err # "" THEN Failed(base.err)
                        ELSE parse_entry(document, None,
                                         IF HasKey(document, "@context")
                                         THEN Some(base.context) ELSE None,
                                         Going(EmptyMap))
                  [] OTHER -> Failed("JsonLd"),
                LAMBDA done :
                  IF done.err # "" THEN Err(done.err) ELSE Ok(SortedNodes(done.acc))))

\* to_json with a number written as its text
to_json_number_as_text(scalar) ==
    CASE scalar.tag = "String" -> JString(scalar.s)
      [] scalar.tag = "Number" -> JString(NumberToString(scalar.n))
      [] scalar.tag = "Boolean" -> JBool(scalar.b)
      [] OTHER -> JNull

\* ScalarValue::to_json
to_json(scalar) ==
    CASE scalar.tag = "String" -> JString(scalar.s)
      [] scalar.tag = "Number" -> JFloat(scalar.n)
      [] scalar.tag = "Boolean" -> JBool(scalar.b)
      [] OTHER -> JNull

\* a serde_json::Map built by inserting the entries in turn
RECURSIVE MapOf(_)
MapOf(entries) ==
    IF entries = <<>> THEN <<>>
    ELSE LET rest == MapOf(SubSeq(entries, 1, Len(entries) - 1))
             last == entries[Len(entries)]
             kept == SelectSeq(rest, LAMBDA e : e.key # last.key)
         IN SortByKey(Append(kept, last),
                      [i \in 1..(Len(kept) + 1) |->
                          <<IF i <= Len(kept) THEN kept[i].key ELSE last.key>>])

node_to_json(node) ==
    LET types == SortedStrings(node.types)
        predicates == SortedStrings(DOMAIN node.properties)
        ref(target) == JObject(<<Entry("@id", JString(target))>>)
        json_value(value) ==
            CASE value.variant = "Scalar" -> to_json(value.scalar)
              [] value.variant = "ObjectRef" -> ref(value.ref)
              [] value.variant = "Scalars" ->
                    JArray([i \in 1..Len(value.scalars) |-> to_json(value.scalars[i])])
              [] OTHER -> JArray([i \in 1..Len(value.refs) |-> ref(value.refs[i])])
    IN JObject(MapOf(
          <<Entry("@id", JString(node.id))>>
          \o (IF types = <<>> THEN <<>>
              ELSE IF Len(types) = 1 THEN <<Entry("@type", JString(types[1]))>>
              ELSE <<Entry("@type", JArray([i \in 1..Len(types) |-> JString(types[i])]))>>)
          \o [i \in 1..Len(predicates) |->
                Entry(predicates[i], json_value(node.properties[predicates[i]]))]))

\* nodes_to_jsonld without a compaction context
nodes_to_jsonld(ns) ==
    LET default_graph == SelectSeq(ns, LAMBDA n : n.graph = None)
        named_graphs == SortedStrings({ns[i].graph[1] : i \in {j \in 1..Len(ns) : ns[j].graph # None}})
        members(graph) == SelectSeq(ns, LAMBDA n : n.graph = Some(graph))
    IN JObject(<<Entry("@graph", JArray(
          [i \in 1..Len(default_graph) |-> node_to_json(default_graph[i])]
          \o [i \in 1..Len(named_graphs) |->
                JObject(MapOf(<<Entry("@id", JString(named_graphs[i])),
                                Entry("@graph",
                                      JArray([j \in 1..Len(members(named_graphs[i])) |->
                                                node_to_json(members(named_graphs[i])[j])]))>>))]))>>)

----------------------------------------------------------------------------
(* The inputs of the flatten/unflatten runs.                               *)

\* the longest node list
MaxNodes == 2
\* the longest array value
MaxArr == 2

Ids == {"a", "b"}

\* the arrays of the inputs: the prefixes of two fixed member lists
ScalarMembers == <<SString("y"), SNull, SNumber(30), SString("y")>>
RefMembers == <<"b", "a", "b", "c">>
ScalarArrays == {SubSeq(ScalarMembers, 1, n) : n \in 0..MaxArr}
RefArrays == {SubSeq(RefMembers, 1, n) : n \in 0..MaxArr}

\* one value of each variant
ValuePool ==
    {PScalar(SString("x")), PScalar(SNumber(1)), PObjectRef("b")}
        \cup {PScalars(a) : a \in ScalarArrays}
        \cup {PObjectRefs(a) : a \in RefArrays}

Node(id, graph, types, properties) ==
    [id |-> id, graph |-> graph, types |-> types, properties |-> properties]

One(p, v) == [k \in {p} |-> v]
Two(p, v, q, w) == [k \in {p, q} |-> IF k = p THEN v ELSE w]

\* nodes of the default graph: every type set with and without an edge array,
\* and every value variant under one predicate
TypedPool ==
    {Node(id, None, ts, props) :
        id \in Ids, ts \in {{}, {"T"}, {"T", "U"}},
        props \in {NoProperties, One("p", PObjectRefs(<<"b">>))}}
ValuedPool ==
    {Node(id, None, {"T"}, One("p", v)) : id \in Ids, v \in ValuePool}
\* nodes of a named graph
GraphPool ==
    {Node(id, Some("g"), {"T"}, props) :
        id \in Ids, props \in {NoProperties, One("p", PScalar(SString("x")))}}
\* nodes with two predicates, among them a predicate that ends in Id
PairPool ==
    {Node("a", None, {"T"}, Two("p", PObjectRef("b"), "pId", PScalar(SString("x")))),
     Node("a", None, {"U"}, Two("p", PScalar(SNull), "q", PObjectRef("a"))),
     Node("b", None, {"T"}, Two("p", PObjectRefs(<<"a">>), "q", PScalar(SBoolean(TRUE))))}

NodePool == TypedPool \cup ValuedPool \cup GraphPool \cup PairPool

NodeLists(pool) == UNION {[1..n -> pool] : n \in 0..MaxNodes}

NotRead == Err("")

\* no RDF file is part of the run
NotWritten == [ok |-> FALSE, err |-> "", quads |-> <<>>]
RdfIdle == rdfFormat = "" /\ rdfFile = NotWritten

\* no JSON-LD document is part of the run
JsonIdle == jsonInput = JNull /\ jsonOutput = JNull /\ reparsed = NotRead

\* the outcome of a run: the error, the routine called, the format used for
\* RDF, the nodes parsed and the content written to the output path
Outcome(err, called, format, ns, written) ==
    [err |-> err, called |-> called, format |-> format, nodes |-> ns, written |-> written,
     from |-> "", to |-> ""]

NotRun == Outcome("", "", "", <<>>, None)

NoArgs ==
    [from |-> "", to |-> "", input |-> "", input_exists |-> FALSE, output |-> "",
     context |-> None, rdf_format |-> None]

\* no command line is part of the run
CliIdle == args = NoArgs /\ syncResult = NotRun

----------------------------------------------------------------------------
(* The flatten/unflatten run: build_workbook, write_workbook, read_nodes.  *)

InitFlatten ==
    /\ pc = "start"
    /\ nodes \in NodeLists(NodePool)
    /\ workbook = <<>>
    /\ order = <<>>
    /\ restored = NotRead
    /\ RdfIdle
    /\ JsonIdle
    /\ outputFile = None
    /\ CliIdle

\* sync::*_to_excel after parsing: build_workbook and write_workbook
BuildWorkbook ==
    /\ pc = "start"
    /\ workbook' = build_workbook(nodes)
    /\ pc' = "built"
    /\ UNCHANGED <<nodes, order, restored, rdfFormat, rdfFile, jsonInput, jsonOutput, reparsed,
                 outputFile, args, syncResult>>

\* excel_read::read_nodes on the written file
ReadNodes ==
    /\ pc = "built"
    /\ IF HasSheet(workbook, METADATA_SHEET)
       THEN \E typeOrder \in Orders(DOMAIN TypeSheetMap(SheetRange(workbook, METADATA_SHEET))),
               childOrder \in Orders(DOMAIN ChildSheetMap(SheetRange(workbook, METADATA_SHEET))) :
                 /\ order' = <<typeOrder, childOrder>>
                 /\ restored' = read_nodes(workbook, typeOrder, childOrder)
       ELSE /\ order' = <<<<>>, <<>>>>
            /\ restored' = read_nodes(workbook, <<>>, <<>>)
    /\ pc' = "read"
    /\ UNCHANGED <<nodes, workbook, rdfFormat, rdfFile, jsonInput, jsonOutput, reparsed,
                 outputFile, args, syncResult>>

NextFlatten == BuildWorkbook \/ ReadNodes

SpecFlatten == InitFlatten /\ [][NextFlatten]_vars

\* nodes whose type names collide once sanitized, or exceed the width cap
LongName == "xxxxxxxxxxxxxxxxxxxxxxxxxxxxxx:"
TypeNamePool ==
    {"T", "a:b", "a/b", "a\tb", "Entities", " ", LongName \o "y", LongName \o "z"}
NamePool ==
    {Node("a", None, {t}, NoProperties) : t \in TypeNamePool}
    \cup {Node("a", None, {t}, One("p", PObjectRefs(<<"b">>))) : t \in {"a:b", LongName \o "y"}}
    \cup {Node("b", None, {"a:b", "a/b", "a_b_1"}, NoProperties)}

InitNames ==
    /\ pc = "start"
    /\ nodes \in NodeLists(NamePool)
    /\ workbook = <<>>
    /\ order = <<>>
    /\ restored = NotRead
    /\ RdfIdle
    /\ JsonIdle
    /\ outputFile = None
    /\ CliIdle

\* the flatten/unflatten run on the inputs with colliding names
SpecNames == InitNames /\ [][NextFlatten]_vars

----------------------------------------------------------------------------
(* The RDF runs: write_rdf then read_rdf on a node list, and read_rdf on   *)
(* a file of arbitrary quads.                                              *)

\* the arrays of the RDF inputs: the prefixes of two fixed member lists
RdfScalarMembers == <<SString("x"), SNumber(30), SString("x")>>
RdfRefMembers == <<"ex:b", "_:b1", "ex:b">>
RdfValuePool ==
    {PScalar(SString("x")), PScalar(SNumber(30)), PScalar(SBoolean(TRUE)),
     PScalar(SBoolean(FALSE)), PScalar(SNull), PObjectRef("ex:b"), PObjectRef("_:b1")}
    \cup {PScalars(SubSeq(RdfScalarMembers, 1, n)) : n \in 0..MaxArr}
    \cup {PObjectRefs(SubSeq(RdfRefMembers, 1, n)) : n \in 0..MaxArr}

RdfNodePool ==
    {Node("ex:a", None, {"ex:T"}, One("ex:p", v)) : v \in RdfValuePool}
    \cup {Node("ex:a", None, {}, One("ex:p", v)) :
            v \in {PScalar(SString("x")), PScalar(SNull), PScalars(<<>>)}}
    \cup {Node(id, g, {"ex:T", "ex:U"}, NoProperties) :
            id \in {"ex:a", "_:b1"}, g \in {None, Some("ex:g")}}
    \cup {Node("ex:a", None, {"ex:T"}, Two("ex:p", PScalar(SNull), "ex:q", v)) :
            v \in {PScalar(SString("x")), PScalars(<<SString("x")>>)}}
    \cup {Node("ex:a", None, {}, One(RDF_TYPE, v)) :
            v \in {PObjectRef("ex:T"), PScalar(SString("x"))}}
    \cup {Node("a", None, {"ex:T"}, NoProperties), Node("ex:a", None, {"T"}, NoProperties),
          Node("ex:a", None, {}, One("p", PScalar(SString("x"))))}
    \cup {Node("ex:b", Some("ex:g"), {}, One("ex:p", PScalar(SString("x")))),
          Node("ex:b", Some("_:g"), {}, One("ex:p", PObjectRef("ex:a")))}

RdfFormatPool == {"NQuads", "Turtle"}

InitRdf ==
    /\ pc = "start"
    /\ nodes \in NodeLists(RdfNodePool)
    /\ workbook = <<>>
    /\ order = <<>>
    /\ restored = NotRead
    /\ rdfFormat \in RdfFormatPool
    /\ rdfFile = NotWritten
    /\ JsonIdle
    /\ outputFile = None
    /\ CliIdle

\* sync::*_to_rdf after parsing: write_rdf
WriteRdf ==
    /\ pc = "start"
    /\ rdfFile' = write_rdf(nodes, rdfFormat)
    /\ pc' = "written"
    /\ UNCHANGED <<nodes, workbook, order, restored, rdfFormat, jsonInput, jsonOutput, reparsed,
                 outputFile, args, syncResult>>

\* sync::rdf_to_*: read_rdf on the file
ReadRdf ==
    /\ pc = "written"
    /\ restored' = read_rdf(rdfFile.quads)
    /\ pc' = "read"
    /\ UNCHANGED <<nodes, workbook, order, rdfFormat, rdfFile, jsonInput, jsonOutput, reparsed,
                 outputFile, args, syncResult>>

NextRdf == WriteRdf \/ ReadRdf

\* write_rdf followed by read_rdf
SpecRdf == InitRdf /\ [][NextRdf]_vars

\* the longest file of quads given to read_rdf
MaxQuads == 3

QuadPool ==
    {Quad(NamedNode("ex:a"), "ex:p", o, DefaultGraph) :
        o \in {NamedNode("ex:b"), BlankNode("b1"), Literal("x", XSD_STRING, ""),
               Literal("30", XSD_INTEGER, ""), Literal("1", XSD_BOOLEAN, ""),
               Literal("x", XSD_DOUBLE, "")}}
    \cup {Quad(NamedNode("ex:a"), "ex:p", o, NamedNode("ex:g")) :
            o \in {NamedNode("ex:b"), Literal("x", XSD_STRING, "")}}
    \cup {Quad(NamedNode("ex:a"), RDF_TYPE, o, DefaultGraph) :
            o \in {NamedNode("ex:T"), Literal("x", XSD_STRING, "")}}
    \cup {Quad(BlankNode("b1"), "ex:p", Literal("x", XSD_STRING, ""), DefaultGraph),
          Quad(NamedNode("ex:a"), "ex:q",
               Literal("hi", "http://www.w3.org/1999/02/22-rdf-syntax-ns#langString", "en"),
               BlankNode("g"))}

QuadFiles == UNION {[1..n -> QuadPool] : n \in 0..MaxQuads}

InitRdfRead ==
    /\ pc = "written"
    /\ nodes = <<>>
    /\ workbook = <<>>
    /\ order = <<>>
    /\ restored = NotRead
    /\ rdfFormat = "NQuads"
    /\ rdfFile \in {[ok |-> TRUE, err |-> "", quads |-> qs] : qs \in QuadFiles}
    /\ JsonIdle
    /\ outputFile = None
    /\ CliIdle

\* read_rdf on a file of quads
SpecRdfRead == InitRdfRead /\ [][ReadRdf]_vars

----------------------------------------------------------------------------
(* The JSON-LD runs: parse_jsonld_document on a document, and the          *)
(* conversion of a document to RDF and back.                               *)

Obj(entries) == JObject(MapOf(entries))
RefObject(target) == Obj(<<Entry("@id", JString(target))>>)

\* a context that coerces ex:p to object references
CoercingContext ==
    Obj(<<Entry("p", Obj(<<Entry("@id", JString("ex:p")), Entry("@type", JString("@id"))>>))>>)
VocabContext == Obj(<<Entry("@vocab", JString("http://v/"))>>)

\* the members of the arrays of the inputs
PlainMembers ==
    {JString("x"), JString("ex:b"), JInt(30), RefObject("ex:c"),
     Obj(<<Entry("@value", JString("y"))>>)}
WrappedMembers ==
    {JArray(<<m>>) : m \in {JString("x"), RefObject("ex:c")}}
    \cup {Obj(<<Entry("@set", JArray(<<m>>))>>) : m \in {JString("x"), RefObject("ex:c")}}
    \cup {Obj(<<Entry("@list", m)>>) : m \in {JInt(30), JString("ex:b")}}
    \cup {Obj(<<Entry("@set", Obj(<<Entry("@value", JString("ex:b"))>>))>>)}
MemberPool == PlainMembers \cup WrappedMembers
ArrayPool == UNION {[1..n -> MemberPool] : n \in 0..MaxArr}

\* documents of one node with one array-valued property
ArrayDocuments ==
    {Obj(<<Entry("@graph", JArray(<<Obj(<<Entry("@id", JString("ex:a")), Entry("ex:p", v)>>)>>))>>) :
        v \in {JArray(a) : a \in ArrayPool} \cup {Obj(<<Entry("@set", JArray(a))>>) : a \in ArrayPool}}
    \cup {Obj(<<Entry("@context", CoercingContext),
               Entry("@graph", JArray(<<Obj(<<Entry("@id", JString("ex:a")),
                                              Entry("ex:p", JArray(a))>>)>>))>>) :
            a \in ArrayPool}

\* objects without an @id, or with an empty one
AnonymousPool ==
    {Obj(<<Entry("name", JString("x"))>>),
     Obj(<<Entry("name", JString("y"))>>),
     Obj(<<Entry("name", Obj(<<Entry("@value", JString("x"))>>))>>),
     Obj(<<Entry("name", JString("x")), Entry("other", JInt(1))>>),
     Obj(<<Entry("@type", JString("ex:T")), Entry("name", JString("x"))>>),
     Obj(<<Entry("@id", JString("")), Entry("name", JString("x"))>>),
     Obj(<<Entry("@id", JString("")), Entry("name", JString("y"))>>),
     Obj(<<Entry("@context", VocabContext), Entry("name", JString("x"))>>),
     Obj(<<Entry("@context", CoercingContext), Entry("name", JString("x"))>>),
     Obj(<<Entry("@graph", JArray(<<Obj(<<Entry("@id", JString("ex:n")),
                                          Entry("name", JString("z"))>>)>>)),
           Entry("name", JString("x"))>>)}

\* documents of two anonymous objects, as an array and under a context
AnonymousDocuments ==
    {JArray(<<a, b>>) : a, b \in AnonymousPool}
    \cup {Obj(<<Entry("@context", VocabContext), Entry("@graph", JArray(<<a, b>>))>>) :
            a, b \in AnonymousPool}

DocumentPool == ArrayDocuments \cup AnonymousDocuments

InitJsonLd ==
    /\ pc = "document"
    /\ jsonInput \in DocumentPool
    /\ nodes = <<>>
    /\ workbook = <<>>
    /\ order = <<>>
    /\ restored = NotRead
    /\ RdfIdle
    /\ jsonOutput = JNull
    /\ reparsed = NotRead
    /\ outputFile = None
    /\ CliIdle

\* jsonld::parse_jsonld_document on the document
ParseJsonLd ==
    /\ pc = "document"
    /\ restored' = parse_jsonld_document(jsonInput)
    /\ pc' = "parsed"
    /\ UNCHANGED <<nodes, workbook, order, rdfFormat, rdfFile, jsonInput, jsonOutput, reparsed,
                 outputFile, args, syncResult>>

\* parse_jsonld_document
SpecJsonLd == InitJsonLd /\ [][ParseJsonLd]_vars

\* the context of the converted documents: a vocabulary and a coerced term
RoundTripContext ==
    Obj(<<Entry("@vocab", JString("http://v/")),
          Entry("knows", Obj(<<Entry("@id", JString("http://v/knows")),
                               Entry("@type", JString("@id"))>>))>>)

\* entries of the @graph of the converted documents
EntryPool ==
    {Obj(<<Entry("@id", JString("ex:a")), Entry("@type", JString("ex:T")),
           Entry("ex:p", JString("x"))>>),
     Obj(<<Entry("@id", JString("ex:a")), Entry("ex:p", JInt(30)), Entry("ex:q", JNull)>>),
     Obj(<<Entry("@id", JString("ex:a")), Entry("ex:q", JNull)>>),
     Obj(<<Entry("@id", JString("ex:a")), Entry("@type", JString("T")),
           Entry("knows", JString("bob"))>>),
     Obj(<<Entry("@id", JString("ex:b")),
           Entry("@type", JArray(<<JString("ex:T"), JString("ex:U")>>)),
           Entry("ex:p", JArray(<<JString("x"), JBool(TRUE)>>))>>),
     Obj(<<Entry("@id", JString("ex:b")), Entry("ex:p", JArray(<<JString("x")>>))>>),
     Obj(<<Entry("@id", JString("ex:b")), Entry("@type", JString("ex:T")),
           Entry("ex:p", JArray(<<>>))>>),
     Obj(<<Entry("@id", JString("ex:b")),
           Entry("ex:q", JArray(<<RefObject("ex:a"), RefObject("_:b1")>>))>>),
     Obj(<<Entry("@id", JString("ex:b")), Entry("ex:p", JArray(<<JNull, JString("x")>>))>>),
     Obj(<<Entry("@id", JString("ex:c")), Entry("ex:q", RefObject("ex:a")),
           Entry("ex:p", JInt(1))>>),
     Obj(<<Entry("@id", JString("ex:c"))>>),
     Obj(<<Entry("@id", JString("ex:c")),
           Entry("ex:p", JArray(<<Obj(<<Entry("@value", JString("ex:b"))>>), JString("x")>>))>>),
     Obj(<<Entry("@id", JString("ex:c")), Entry(RDF_TYPE, JString("x"))>>),
     Obj(<<Entry("ex:p", JString("x"))>>),
     Obj(<<Entry("@id", JString("ex:g")),
           Entry("@graph", JArray(<<Obj(<<Entry("@id", JString("ex:a")),
                                          Entry("ex:p", JInt(30)),
                                          Entry("ex:q", JNull)>>)>>))>>)}

ConvertedDocuments ==
    LET graphs == UNION {[1..n -> EntryPool] : n \in 0..MaxNodes}
    IN {Obj(<<Entry("@graph", JArray(g))>>) : g \in graphs}
       \cup {Obj(<<Entry("@context", RoundTripContext), Entry("@graph", JArray(g))>>) :
               g \in graphs}

InitJsonLdRdf ==
    /\ pc = "document"
    /\ jsonInput \in ConvertedDocuments
    /\ rdfFormat \in RdfFormatPool
    /\ nodes = <<>>
    /\ workbook = <<>>
    /\ order = <<>>
    /\ restored = NotRead
    /\ rdfFile = NotWritten
    /\ jsonOutput = JNull
    /\ reparsed = NotRead
    /\ outputFile = None
    /\ CliIdle

\* sync::jsonld_to_rdf: parse_jsonld_document, then write_rdf
JsonLdToRdf ==
    /\ pc = "document"
    /\ Bind(parse_jsonld_document(jsonInput), LAMBDA parsed :
            IF parsed.ok
            THEN /\ nodes' = parsed.nodes
                 /\ rdfFile' = write_rdf(parsed.nodes, rdfFormat)
                 /\ pc' = IF rdfFile'.ok THEN "written" ELSE "failed"
            ELSE /\ nodes' = <<>>
                 /\ rdfFile' = [ok |-> FALSE, err |-> parsed.err, quads |-> <<>>]
                 /\ pc' = "failed")
    /\ UNCHANGED <<workbook, order, restored, rdfFormat, jsonInput, jsonOutput, reparsed,
                 outputFile, args, syncResult>>

\* sync::rdf_to_jsonld: read_rdf, then nodes_to_jsonld
RdfToJsonLd ==
    /\ pc = "written"
    /\ restored' = read_rdf(rdfFile.quads)
    /\ jsonOutput' = IF restored'.ok THEN nodes_to_jsonld(restored'.nodes) ELSE jsonOutput
    /\ pc' = IF restored'.ok THEN "converted" ELSE "failed"
    /\ UNCHANGED <<nodes, workbook, order, rdfFormat, rdfFile, jsonInput, reparsed,
                 outputFile, args, syncResult>>

\* parse_jsonld_document on the converted document
ReparseJsonLd ==
    /\ pc = "converted"
    /\ reparsed' = parse_jsonld_document(jsonOutput)
    /\ pc' = "reparsed"
    /\ UNCHANGED <<nodes, workbook, order, restored, rdfFormat, rdfFile, jsonInput, jsonOutput,
                 outputFile, args, syncResult>>

NextJsonLdRdf == JsonLdToRdf \/ RdfToJsonLd \/ ReparseJsonLd

\* JSON-LD to RDF and back to JSON-LD
SpecJsonLdRdf == InitJsonLdRdf /\ [][NextJsonLdRdf]_vars

----------------------------------------------------------------------------
(* The output file of a conversion to RDF.                                 *)

\* the content of a file that is at the output path before the run
OldFile ==
    <<Quad(NamedNode("ex:old"), NamedNode("ex:p"), Literal("old", XSD_STRING, ""), DefaultGraph)>>

InitSyncRdf ==
    /\ pc = "start"
    /\ restored \in {Ok(ns) : ns \in NodeLists(RdfNodePool)} \cup {Err("InvalidWorkbook")}
    /\ rdfFormat \in RdfFormatPool
    /\ outputFile \in {None, Some(OldFile)}
    /\ CliIdle
    /\ nodes = <<>>
    /\ workbook = <<>>
    /\ order = <<>>
    /\ rdfFile = NotWritten
    /\ JsonIdle

\* sync::excel_to_rdf: the nodes are read, then write_rdf creates the output
\* file and writes the quads one by one until the first error
ExcelToRdf ==
    /\ pc = "start"
    /\ IF ~restored.ok
       THEN /\ pc' = "failed"
            /\ rdfFile' = [ok |-> FALSE, err |-> restored.err, quads |-> <<>>]
            /\ UNCHANGED <<nodes, outputFile>>
       ELSE /\ nodes' = restored.nodes
            /\ rdfFile' = write_rdf(restored.nodes, rdfFormat)
            /\ outputFile' = Some(rdfFile'.quads)
            /\ pc' = IF rdfFile'.ok THEN "done" ELSE "failed"
    /\ UNCHANGED <<workbook, order, restored, rdfFormat, jsonInput, jsonOutput, reparsed, args,
                 syncResult>>

\* a conversion to RDF and the file it leaves
SpecSyncRdf == InitSyncRdf /\ [][ExcelToRdf]_vars

----------------------------------------------------------------------------
(* sync::jsonld_to_excel on documents of two node objects.                 *)

\* the members a node object of the documents may carry
NameMembers(name) ==
    {<<>>, <<Entry("ex:name", JString(name))>>, <<Entry("ex:name", JBool(TRUE))>>}

KnowsMembers ==
    {<<>>,
     <<Entry("ex:knows", RefObject("ex:2"))>>,
     <<Entry("ex:knows", JArray(<<RefObject("ex:2")>>))>>,
     <<Entry("ex:knows", JArray(<<RefObject("ex:2"), RefObject("ex:3")>>))>>}

TypeMembers(types) == {<<Entry("@type", JString(t))>> : t \in types}

FirstObjects ==
    {Obj(<<Entry("@id", JString("ex:1"))>> \o t \o n \o k) :
        t \in TypeMembers({"ex:Person"}) \cup {<<>>}, n \in NameMembers("Alice"), k \in KnowsMembers}

SecondObjects ==
    {Obj(<<Entry("@id", JString("ex:2"))>> \o t \o n) :
        t \in TypeMembers({"ex:Person", "ex:Agent"}), n \in NameMembers("Bob")}

GraphDocuments ==
    {Obj(<<Entry("@graph", JArray(items))>>) :
        items \in UNION {{<<a, b>>, <<b, a>>} : a \in FirstObjects, b \in SecondObjects}}

InitJsonLdExcel ==
    /\ pc = "document"
    /\ jsonInput \in GraphDocuments
    /\ nodes = <<>>
    /\ workbook = <<>>
    /\ order = <<>>
    /\ restored = NotRead
    /\ RdfIdle
    /\ jsonOutput = JNull
    /\ reparsed = NotRead
    /\ outputFile = None
    /\ CliIdle

\* sync::jsonld_to_excel: parse_jsonld_document, build_workbook, write_workbook
JsonLdToExcel ==
    /\ pc = "document"
    /\ restored' = parse_jsonld_document(jsonInput)
    /\ IF restored'.ok
       THEN /\ nodes' = restored'.nodes
            /\ workbook' = build_workbook(nodes')
            /\ outputFile' = Some(workbook')
            /\ pc' = "written"
       ELSE /\ pc' = "failed"
            /\ UNCHANGED <<nodes, workbook, outputFile>>
    /\ UNCHANGED <<order, rdfFormat, rdfFile, jsonInput, jsonOutput, reparsed, args, syncResult>>

SpecJsonLdExcel == InitJsonLdExcel /\ [][JsonLdToExcel]_vars

----------------------------------------------------------------------------
(* excel_read::read_nodes on workbooks that were not written by            *)
(* build_workbook: sheets may be missing, rows may come in any order.      *)

OptionalSheet(name, columns, rowLists) ==
    {<<>>} \cup {<<SheetTable(name, columns, rows)>> : rows \in rowLists}

EntitiesSheets ==
    OptionalSheet(ENTITIES_SHEET, <<"id", "type", "graph">>,
        {<<>>,
         <<<<"a", "T", "">>>>,
         <<<<"b", "T", "g">>, <<"a", "T", "">>>>,
         <<<<"a", "T", "g">>, <<"a", "T", "">>>>,
         <<<<"b", "", "">>, <<"a", "T", "">>, <<"", "T", "">>>>})

MetadataSheets ==
    OptionalSheet(METADATA_SHEET, <<"kind", "sheet", "type", "predicate">>,
        {<<<<"type", "T", "T", "">>>>,
         <<<<"type", "T", "T", "">>, <<"child", "T__p", "T", "p">>>>,
         <<<<"child", "T__p", "T", "p">>, <<"type", "T", "T", "">>>>,
         <<<<"type", "T", "T", "">>, <<"link", "T__p", "T", "p">>>>,
         <<<<"", "T__q", "T", "q">>, <<"type", "T", "T", "">>, <<"child", "T__p", "T", "p">>>>,
         <<<<"child", "T__p", "T", "p">>>>,
         <<<<"type", "T", "T", "">>, <<"child", "T__p", "T", "p">>, <<"child", "U__p", "U", "p">>>>})

TypeSheets ==
    OptionalSheet("T", <<"id", "graph", "q">>,
        {<<<<"a", "", "\"x\"">>>>,
         <<<<"c", "", "true">>>>,
         <<<<"a", "", "x">>>>,
         <<<<"b", "g", "true">>, <<"a", "", "\"x\"">>>>})
    \cup OptionalSheet("T", <<"id", "graph", "pId">>, {<<<<"a", "", "t">>>>})
    \cup OptionalSheet("T", <<"id", "graph", "p">>,
            {<<<<"a", "", "[\"s\"]">>>>, <<<<"a", "", "\"s\"">>>>})

ChildSheets ==
    OptionalSheet("T__p", <<"ParentId", "pId">>,
        {<<<<"a", "x">>>>,
         <<<<"a", "y">>, <<"a", "x">>>>,
         <<<<"a", "x">>, <<"a", "x">>>>,
         <<<<"c", "x">>>>,
         <<<<"a", "x">>, <<"", "y">>, <<"a", "">>>>})
    \cup OptionalSheet("T__p", <<"ParentId", "graph", "pId">>,
        {<<<<"a", "g", "x">>, <<"a", "", "y">>, <<"a", "", "x">>>>})

OtherChildSheets == OptionalSheet("U__p", <<"ParentId", "pId">>, {<<<<"a", "z">>>>})

WorkbookPool ==
    {e \o md \o t \o c \o u :
        e \in EntitiesSheets, md \in MetadataSheets, t \in TypeSheets, c \in ChildSheets,
        u \in OtherChildSheets}

InitExcelRead ==
    /\ pc = "built"
    /\ workbook \in WorkbookPool
    /\ nodes = <<>>
    /\ order = <<>>
    /\ restored = NotRead
    /\ RdfIdle
    /\ JsonIdle
    /\ outputFile = None
    /\ CliIdle

\* read_nodes on any workbook
SpecExcelRead == InitExcelRead /\ [][ReadNodes]_vars

----------------------------------------------------------------------------
(* The three parsers on inputs that state the same ids under several       *)
(* graphs, in any order.                                                   *)

\* a statement: a type or a property of an id, under a graph or under none
Statement(graph, id, kind, name) == [graph |-> graph, id |-> id, kind |-> kind, name |-> name]

StatementGraphs == {None, Some("ex:g"), Some("ex:h")}
StatementIds == {"ex:a", "ex:b"}
TypeStatements == {Statement(g, i, "type", "ex:T") : g \in StatementGraphs, i \in StatementIds}
StatementPool ==
    TypeStatements
    \cup {Statement(g, i, "property", p) : g \in StatementGraphs, i \in StatementIds, p \in {"ex:p", "ex:q"}}

\* the longest list of statements of any kind; lists of types are one longer
MaxStatements == 2

StatementLists ==
    UNION {[1..n -> StatementPool] : n \in 1..MaxStatements}
        \cup [1..(MaxStatements + 1) -> TypeStatements]

\* the JSON-LD entry that makes a statement
EntryOf(st) ==
    LET object == Obj(<<Entry("@id", JString(st.id)),
                        IF st.kind = "type" THEN Entry("@type", JString(st.name))
                        ELSE Entry(st.name, JString("x"))>>)
    IN IF st.graph = None THEN object
       ELSE Obj(<<Entry("@id", JString(st.graph[1])), Entry("@graph", JArray(<<object>>))>>)

DocumentOf(stmts) == JArray([i \in 1..Len(stmts) |-> EntryOf(stmts[i])])

\* the quad that makes a statement
QuadOf(st) ==
    Quad(NamedNode(st.id),
         IF st.kind = "type" THEN RDF_TYPE ELSE st.name,
         IF st.kind = "type" THEN NamedNode(st.name) ELSE Literal("x", XSD_STRING, ""),
         IF st.graph = None THEN DefaultGraph ELSE NamedNode(st.graph[1]))

QuadsOf(stmts) == [i \in 1..Len(stmts) |-> QuadOf(stmts[i])]

InitParseJsonLd ==
    /\ pc = "document"
    /\ jsonInput \in {DocumentOf(stmts) : stmts \in StatementLists}
    /\ nodes = <<>>
    /\ workbook = <<>>
    /\ order = <<>>
    /\ restored = NotRead
    /\ RdfIdle
    /\ jsonOutput = JNull
    /\ reparsed = NotRead
    /\ outputFile = None
    /\ CliIdle

InitParseRdf ==
    /\ pc = "written"
    /\ nodes = <<>>
    /\ workbook = <<>>
    /\ order = <<>>
    /\ restored = NotRead
    /\ rdfFormat = "NQuads"
    /\ rdfFile \in {[ok |-> TRUE, err |-> "", quads |-> QuadsOf(stmts)] : stmts \in StatementLists}
    /\ JsonIdle
    /\ outputFile = None
    /\ CliIdle

InitParse == InitParseJsonLd \/ InitParseRdf \/ InitExcelRead

NextParse == ParseJsonLd \/ ReadRdf \/ ReadNodes

\* parse_jsonld_document, read_rdf and read_nodes
SpecParse == InitParse /\ [][NextParse]_vars

----------------------------------------------------------------------------
(* The command line (main.rs): execute_sync, and the format selection of   *)
(* read_rdf (io/rdf.rs).                                                   *)

\* u8::to_ascii_lowercase
LowerChar(c) ==
    IF CodeOf(c) >= 65 /\ CodeOf(c) <= 90 THEN CharAt(AsciiHigh, CodeOf(c) - 64) ELSE c

RECURSIVE to_ascii_lowercase(_)
to_ascii_lowercase(s) ==
    IF s = "" THEN "" ELSE LowerChar(CharAt(s, 1)) \o to_ascii_lowercase(SubSeq(s, 2, Len(s)))

\* Path::file_name: the part after the last separator
file_name(path) ==
    LET seps == {i \in 1..Len(path) : CharAt(path, i) = "/"}
    IN IF seps = {} THEN path
       ELSE SubSeq(path, (CHOOSE i \in seps : \A j \in seps : j <= i) + 1, Len(path))

\* Path::extension: the part of the file name after its last dot, when the
\* file name has a dot that is not its first character
extension(path) ==
    LET name == file_name(path)
        dots == {i \in 2..Len(name) : CharAt(name, i) = "."}
    IN IF name = "" \/ name = ".." \/ dots = {} THEN None
       ELSE Some(SubSeq(name, (CHOOSE i \in dots : \A j \in dots : j <= i) + 1, Len(name)))

\* (mutant) a lookup of the extension as it is written
detect_format_case_sensitive(path) ==
    IF extension(path) = None THEN None
    ELSE CASE extension(path)[1] \in {"ttl", "turtle"} -> Some("Turtle")
           [] extension(path)[1] = "nt" -> Some("NTriples")
           [] extension(path)[1] = "nq" -> Some("NQuads")
           [] extension(path)[1] = "trig" -> Some("TriG")
           [] extension(path)[1] = "jsonld" -> Some("JsonLd")
           [] OTHER -> None

\* rdf::detect_format
detect_format(path) ==
    IF extension(path) = None THEN None
    ELSE CASE to_ascii_lowercase(extension(path)[1]) \in {"ttl", "turtle"} -> Some("Turtle")
           [] to_ascii_lowercase(extension(path)[1]) = "nt" -> Some("NTriples")
           [] to_ascii_lowercase(extension(path)[1]) = "nq" -> Some("NQuads")
           [] to_ascii_lowercase(extension(path)[1]) = "trig" -> Some("TriG")
           [] to_ascii_lowercase(extension(path)[1]) = "jsonld" -> Some("JsonLd")
           [] OTHER -> None

\* read_rdf up to the parse loop: the format, then File::open
read_rdf_file(path, format, exists, quads) ==
    LET chosen == IF format # None THEN format ELSE detect_format(path)
    IN IF chosen = None THEN [format |-> "", result |-> Err("Rdf")]
       ELSE IF ~exists THEN [format |-> chosen[1], result |-> Err("Io")]
       ELSE [format |-> chosen[1], result |-> read_rdf(quads)]

\* main::guess_rdf_format
guess_rdf_format(path) ==
    IF detect_format(path) = None THEN "Turtle" ELSE detect_format(path)[1]

\* SyncArgs::resolve_rdf_format
resolve_rdf_format(a, output) ==
    IF a.rdf_format # None THEN a.rdf_format[1] ELSE guess_rdf_format(output)

\* Display for DataFormat
DataFormatName(f) ==
    CASE f = "JsonLd" -> "jsonld" [] f = "Excel" -> "xlsx" [] OTHER -> "rdf"

DataFormats == {"JsonLd", "Excel", "Rdf"}

\* the files a context path may name: what load_json returns for each
ContextFiles ==
    [path \in {"ctx.json", "missing.json", "broken.json"} |->
        CASE path = "ctx.json" -> "" [] path = "missing.json" -> "Io" [] OTHER -> "Json"]

load_json(path) == ContextFiles[path]

\* the second half of every sync routine: the nodes written in the target format
WriteNodes(called, to, format, parsed) ==
    IF ~parsed.ok THEN Outcome(parsed.err, called, format, <<>>, None)
    ELSE Outcome(IF to = "Rdf" THEN write_rdf(parsed.nodes, format).err ELSE "",
                 called, format, parsed.nodes,
                 Some(CASE to = "Excel" -> build_workbook(parsed.nodes)
                        [] to = "JsonLd" -> nodes_to_jsonld(parsed.nodes)
                        [] OTHER -> write_rdf(parsed.nodes, format)))

\* (mutant) a dispatch that also takes RDF to RDF
RoutineWithIdentity(from, to) ==
    CASE from = "JsonLd" /\ to = "Excel" -> "jsonld_to_excel"
      [] from = "Excel" /\ to = "JsonLd" -> "excel_to_jsonld"
      [] from = "JsonLd" /\ to = "Rdf" -> "jsonld_to_rdf"
      [] from = "Excel" /\ to = "Rdf" -> "excel_to_rdf"
      [] from = "Rdf" /\ to = "Excel" -> "rdf_to_excel"
      [] from = "Rdf" -> "rdf_to_jsonld"
      [] OTHER -> ""

\* the conversion routine of sync.rs that execute_sync selects, if any
Routine(from, to) ==
    CASE from = "JsonLd" /\ to = "Excel" -> "jsonld_to_excel"
      [] from = "Excel" /\ to = "JsonLd" -> "excel_to_jsonld"
      [] from = "JsonLd" /\ to = "Rdf" -> "jsonld_to_rdf"
      [] from = "Excel" /\ to = "Rdf" -> "excel_to_rdf"
      [] from = "Rdf" /\ to = "Excel" -> "rdf_to_excel"
      [] from = "Rdf" /\ to = "JsonLd" -> "rdf_to_jsonld"
      [] OTHER -> ""

\* the first half of every sync routine: the nodes parsed from the input; the
\* routines that read RDF give read_rdf no format
ParseInput(a, document, wb, quads, typeOrder, childOrder) ==
    CASE a.from = "JsonLd" -> parse_jsonld_document(document)
      [] a.from = "Excel" -> read_nodes(wb, typeOrder, childOrder)
      [] OTHER -> read_rdf_file(a.input, None, TRUE, quads).result

\* the RDF format a routine works with: the one written, or the one read
FormatUsed(a) ==
    IF a.to = "Rdf" THEN resolve_rdf_format(a, a.output)
    ELSE IF a.from = "Rdf" /\ detect_format(a.input) # None THEN detect_format(a.input)[1]
    ELSE ""

\* main::execute_sync; the workbook's sheet maps are iterated in typeOrder and
\* childOrder
execute_sync(a, document, wb, quads, typeOrder, childOrder) ==
    IF ~a.input_exists THEN Outcome("MissingInput", "", "", <<>>, None)
    ELSE IF a.context # None /\ load_json(a.context[1]) # ""
    THEN Outcome(load_json(a.context[1]), "", "", <<>>, None)
    ELSE IF Routine(a.from, a.to) = ""
    THEN [Outcome("UnsupportedConversion", "", "", <<>>, None)
            EXCEPT !.from = DataFormatName(a.from), !.to = DataFormatName(a.to)]
    ELSE Bind(ParseInput(a, document, wb, quads, typeOrder, childOrder), LAMBDA parsed :
            WriteNodes(Routine(a.from, a.to), a.to, FormatUsed(a), parsed))

InputPaths == {"in.nq", "data/in.TTL", "in.dat"}
OutputPaths == {"out.nq", "out.TriG", "out.rdf", "out.d/out"}
ExplicitFormats == {None, Some("NTriples"), Some("NQuads")}
ContextPaths == {None} \cup {Some(path) : path \in DOMAIN ContextFiles}

\* the command lines: a context is given to a supported conversion only when
\* the target is not JSON-LD
ArgsPool ==
    {a \in [from : DataFormats, to : DataFormats, input : InputPaths, input_exists : BOOLEAN,
            output : OutputPaths, context : ContextPaths, rdf_format : ExplicitFormats] :
        a.to = "JsonLd" /\ a.from # "JsonLd" => a.context # Some("ctx.json")}

\* what the input file holds: one node in a named graph, or one in none
InputStatements ==
    {<<Statement(Some("ex:g"), "ex:a", "type", "ex:T")>>,
     <<Statement(None, "ex:a", "property", "ex:p")>>}

InputWorkbook ==
    <<SheetTable(ENTITIES_SHEET, <<"id", "type", "graph">>, <<<<"a", "T", "">>>>),
      SheetTable(METADATA_SHEET, <<"kind", "sheet", "type", "predicate">>,
                 <<<<"type", "T", "T", "">>>>),
      SheetTable("T", <<"id", "graph", "q">>, <<<<"a", "", "\"x\"">>>>)>>

InitSync ==
    /\ pc = "cli"
    /\ args \in ArgsPool
    /\ syncResult = NotRun
    /\ \E stmts \in InputStatements :
          /\ jsonInput = IF args.from = "JsonLd" THEN DocumentOf(stmts) ELSE JNull
          /\ rdfFile = IF args.from = "Rdf"
                       THEN [ok |-> TRUE, err |-> "", quads |-> QuadsOf(stmts)]
                       ELSE NotWritten
    /\ workbook = IF args.from = "Excel" THEN InputWorkbook ELSE <<>>
    /\ nodes = <<>>
    /\ order = <<>>
    /\ restored = NotRead
    /\ rdfFormat = ""
    /\ jsonOutput = JNull
    /\ reparsed = NotRead
    /\ outputFile \in {None, Some(OldFile)}

\* one run of the sync command
ExecuteSync ==
    /\ pc = "cli"
    /\ \E typeOrder \in IF args.from = "Excel"
                        THEN Orders(DOMAIN TypeSheetMap(SheetRange(workbook, METADATA_SHEET)))
                        ELSE {<<>>},
          childOrder \in IF args.from = "Excel"
                         THEN Orders(DOMAIN ChildSheetMap(SheetRange(workbook, METADATA_SHEET)))
                         ELSE {<<>>} :
          Bind(execute_sync(args, jsonInput, workbook, rdfFile.quads, typeOrder, childOrder),
               LAMBDA run :
                  /\ syncResult' = run
                  /\ nodes' = run.nodes
                  /\ rdfFormat' = run.format
                  /\ order' = IF args.from = "Excel" /\ run.called # ""
                              THEN <<typeOrder, childOrder>> ELSE order
                  /\ IF run.written = None
                     THEN UNCHANGED <<workbook, rdfFile, jsonOutput, outputFile>>
                     ELSE CASE args.to = "Excel" ->
                                 /\ workbook' = run.written[1]
                                 /\ outputFile' = run.written
                                 /\ UNCHANGED <<rdfFile, jsonOutput>>
                            [] args.to = "JsonLd" ->
                                 /\ jsonOutput' = run.written[1]
                                 /\ outputFile' = run.written
                                 /\ UNCHANGED <<workbook, rdfFile>>
                            [] OTHER ->
                                 /\ rdfFile' = run.written[1]
                                 /\ outputFile' = Some(run.written[1].quads)
                                 /\ UNCHANGED <<workbook, jsonOutput>>
                  /\ pc' = IF run.err = "" THEN "done" ELSE "failed")
    /\ UNCHANGED <<restored, jsonInput, reparsed, args>>

\* rdf::read_rdf called on the input path with the format of the command line
ReadRdfFile ==
    /\ pc = "cli"
    /\ args.from = "Rdf"
    /\ Bind(read_rdf_file(args.input, args.rdf_format, args.input_exists, rdfFile.quads),
            LAMBDA read :
               /\ rdfFormat' = read.format
               /\ restored' = read.result
               /\ pc' = IF read.result.ok THEN "read" ELSE "failed")
    /\ UNCHANGED <<nodes, workbook, order, rdfFile, jsonInput, jsonOutput, reparsed, outputFile,
                 args, syncResult>>

NextSync == ExecuteSync \/ ReadRdfFile

SpecSync == InitSync /\ [][NextSync]_vars

----------------------------------------------------------------------------
(* parse_jsonld_document on documents whose entries carry their own        *)
(* @context, a nested @graph, compact keys and values of every shape.      *)

\* the context of the document: a vocabulary, a term, a coerced term and
\* two prefixes
OuterContext ==
    Obj(<<Entry("@vocab", JString("http://o/")),
          Entry("name", JString("http://o/name")),
          Entry("knows", Obj(<<Entry("@id", JString("http://o/knows")),
                               Entry("@type", JString("@id"))>>)),
          Entry("pre", JString("http://p/")),
          Entry("p_1", JString("http://q/"))>>)

\* what an entry's own @context may hold: a changed term, a changed
\* vocabulary, removed terms, an added coercion, a reset
LocalContexts ==
    {Obj(<<Entry("name", JString("http://n/name"))>>),
     Obj(<<Entry("@vocab", JString("http://n/"))>>),
     Obj(<<Entry("name", JNull), Entry("knows", JNull), Entry("pre", JNull)>>),
     Obj(<<Entry("likes", Obj(<<Entry("@id", JString("http://n/likes")),
                                Entry("@type", JString("@id"))>>))>>),
     JNull}

ContextChoices == {None} \cup {Some(c) : c \in LocalContexts}

WithContext(choice) == IF choice = None THEN <<>> ELSE <<Entry("@context", choice[1])>>

\* the types and properties every entry states
Body ==
    <<Entry("@type", JArray(<<JString("T"), JString("pre:T"), JString("p_1:U")>>)),
      Entry("name", JString("x")),
      Entry("knows", JString("b")),
      Entry("likes", JString("c")),
      Entry("pre:x", JInt(1)),
      Entry("p_1:y", JInt(2))>>

PlainEntry(id, choice) == Obj(WithContext(choice) \o <<Entry("@id", JString(id))>> \o Body)

GraphEntry(name, choice, nested, with_properties) ==
    Obj(WithContext(choice)
        \o (IF name = None THEN <<>> ELSE <<Entry("@id", JString(name[1]))>>)
        \o <<Entry("@graph", JArray(<<nested>>))>>
        \o (IF with_properties THEN Body ELSE <<>>))

NestedChoices == {None, Some(Obj(<<Entry("name", JString("http://n/name"))>>)), Some(JNull)}

FirstEntries ==
    {PlainEntry("ex:a", c) : c \in ContextChoices}
    \cup {GraphEntry(g, c, PlainEntry("ex:n", d), w) :
            g \in {None, Some("ex:g")}, c \in ContextChoices, d \in NestedChoices, w \in BOOLEAN}

SecondEntries == {PlainEntry("ex:b", c) : c \in {None, Some(Obj(<<Entry("@vocab", JString("http://n/"))>>))}}

ScopedDocument(outer, entries) ==
    IF outer THEN Obj(<<Entry("@context", OuterContext), Entry("@graph", JArray(entries))>>)
    ELSE JArray(entries)

ScopedDocuments ==
    {ScopedDocument(outer, <<first, second>>) :
        outer \in BOOLEAN, first \in FirstEntries, second \in SecondEntries}

\* one property of one node, under the document's context: a single value
\* or an array of members
ValueMembers ==
    {JString("b"), JString("ex:b"), RefObject("ex:c"), JInt(1),
     Obj(<<Entry("@id", JInt(5))>>),
     Obj(<<Entry("@id", JString("ex:c")), Entry("@value", JString("x"))>>)}

ValueChoices == ValueMembers \cup {JArray(a) : a \in UNION {[1..n -> ValueMembers] : n \in 0..MaxArr}}

ValueDocuments ==
    {Obj(<<Entry("@context", OuterContext),
           Entry("@graph", JArray(<<Obj(<<Entry("@id", JString("ex:a")), Entry(key, v)>>)>>))>>) :
        key \in {"knows", "name"}, v \in ValueChoices}

InitContext ==
    /\ pc = "document"
    /\ jsonInput \in ScopedDocuments \cup ValueDocuments
    /\ nodes = <<>>
    /\ workbook = <<>>
    /\ order = <<>>
    /\ restored = NotRead
    /\ RdfIdle
    /\ jsonOutput = JNull
    /\ reparsed = NotRead
    /\ outputFile = None
    /\ CliIdle

\* parse_jsonld_document on documents with scoped contexts
SpecContext == InitContext /\ [][ParseJsonLd]_vars

----------------------------------------------------------------------------
(* Properties of the flatten/unflatten run.                                *)

Built == pc \in {"built", "read"}

\* the list is strictly sorted by (graph, id): the order every parser returns
StrictlySorted(ns) == \A i \in 1..(Len(ns) - 1) : NodeLt(ns[i], ns[i + 1])

\* the values the workbook layout can carry for a reader that reads every
\* column: no predicate that ends in Id or is empty, no empty or blank target
Carried(n) ==
    \A p \in DOMAIN n.properties :
        /\ p # "" /\ ~EndsWith(p, "Id")
        /\ n.properties[p].variant = "ObjectRef" => Trim(n.properties[p].ref) # ""
        /\ n.properties[p].variant = "ObjectRefs" =>
              /\ n.properties[p].refs # <<>>
              /\ \A k \in 1..Len(n.properties[p].refs) : n.properties[p].refs[k] # ""

\* C1: for a node list sorted by (graph, id), of the default graph only, with
\* values the layout carries and no type named like the untyped marker,
\* build_workbook followed by read_nodes returns a node list equal to the input.
C1_FlattenRoundTrip ==
    (/\ pc = "read"
     /\ StrictlySorted(nodes)
     /\ \A i \in 1..Len(nodes) :
            /\ nodes[i].graph = None
            /\ Carried(nodes[i])
            /\ UNTYPED_MARKER \notin nodes[i].types)
        => restored = Ok(nodes)

\* C3: build_workbook followed by read_nodes returns every node with the graph
\* it had: a node of a named graph with that graph name, a node of the default
\* graph with graph None.
C3_GraphPreserved ==
    (pc = "read" /\ StrictlySorted(nodes))
        => /\ restored.ok
           /\ \A i \in 1..Len(nodes) : \E j \in 1..Len(restored.nodes) :
                 /\ restored.nodes[j].id = nodes[i].id
                 /\ restored.nodes[j].graph = nodes[i].graph

\* the characters no sheet name may hold
ForbiddenInSheetName == {":", "\\", "/", "?", "*", "[", "]", "'", "\"", "\t", "\n", "\r", "\f"}

\* C5: every sheet name of a built workbook has at most 31 characters and none
\* of the forbidden characters, and no two tables of the workbook share a name.
C5_SheetNames ==
    Built =>
        /\ \A i \in 1..Len(workbook) :
              /\ Len(workbook[i].sheet_name) <= 31
              /\ \A k \in 1..Len(workbook[i].sheet_name) :
                    CharAt(workbook[i].sheet_name, k) \notin ForbiddenInSheetName
        /\ \A i, j \in 1..Len(workbook) :
              workbook[i].sheet_name = workbook[j].sheet_name => i = j

\* the semantic names of the generated sheets, as Metadata records them
SemanticNames(wb) ==
    {IF wb[2].rows[r][1] = "type" THEN wb[2].rows[r][3]
     ELSE wb[2].rows[r][3] \o "__" \o wb[2].rows[r][4] : r \in 1..Len(wb[2].rows)}

\* C5 witness: a built workbook with two distinct semantic names of more than
\* 31 characters that agree on their first 31, and a name with a forbidden
\* character
C5_Witness ==
    /\ pc = "built"
    /\ \E x, y \in SemanticNames(workbook) :
          x # y /\ Len(x) > 31 /\ Len(y) > 31 /\ SubSeq(x, 1, 31) = SubSeq(y, 1, 31)
    /\ \E x \in SemanticNames(workbook) :
          \E k \in 1..Len(x) : CharAt(x, k) \in ForbiddenInSheetName

\* the type strings of a node list, an untyped node counting as the marker
Membership(n) == IF n.types = {} THEN {"__untyped__"} ELSE n.types

RECURSIVE MembershipCount(_)
MembershipCount(ns) ==
    IF ns = <<>> THEN 0 ELSE Cardinality(Membership(Head(ns))) + MembershipCount(Tail(ns))

\* C6: a built workbook has as many Metadata rows of kind type, each naming a
\* table of its own, as there are distinct type strings, and Entities holds one
\* row per (node, type) membership.
C6_TypeTablesAndEntities ==
    Built =>
        LET meta == workbook[2].rows
            typeRows == {r \in 1..Len(meta) : meta[r][1] = "type"}
            entities == workbook[1].rows
            distinct == UNION {Membership(nodes[i]) : i \in 1..Len(nodes)}
        IN /\ workbook[1].sheet_name = "Entities" /\ workbook[2].sheet_name = "Metadata"
           /\ Cardinality(typeRows) = Cardinality(distinct)
           /\ {meta[r][3] : r \in typeRows} = distinct
           /\ \A r \in typeRows : \E i \in 3..Len(workbook) : workbook[i].sheet_name = meta[r][2]
           /\ Cardinality({meta[r][2] : r \in typeRows}) = Cardinality(typeRows)
           /\ Len(entities) = MembershipCount(nodes)
           /\ \A i \in 1..Len(nodes) : \A t \in Membership(nodes[i]) :
                 Cardinality({r \in 1..Len(entities) : entities[r] = <<nodes[i].id, t>>})
                    = Cardinality({j \in 1..Len(nodes) :
                                      nodes[j].id = nodes[i].id /\ t \in Membership(nodes[j])})

\* C6 witness: a built workbook of an untyped node and a node of two types
C6_Witness ==
    /\ pc = "built"
    /\ \E i, j \in 1..Len(nodes) : nodes[i].types = {} /\ Cardinality(nodes[j].types) = 2

----------------------------------------------------------------------------
(* Properties of the RDF codec.                                            *)

\* an id, reference target or graph name the RDF model accepts: an absolute
\* IRI, or a blank node label after "_:"
ValidId(s) ==
    IF StartsWith(s, "_:") THEN BlankIdParses(SubSeq(s, 3, Len(s))) ELSE IriParses(s)

\* the scalars and the reference targets a property value holds
ScalarsOf(v) ==
    CASE v.variant = "Scalar" -> <<v.scalar>> [] v.variant = "Scalars" -> v.scalars
      [] OTHER -> <<>>
TargetsOf(v) ==
    CASE v.variant = "ObjectRef" -> <<v.ref>> [] v.variant = "ObjectRefs" -> v.refs
      [] OTHER -> <<>>

ValidNames(n) ==
    /\ ValidId(n.id)
    /\ n.graph # None => ValidId(n.graph[1])
    /\ \A t \in n.types : IriParses(t)
    /\ \A p \in DOMAIN n.properties :
          /\ IriParses(p)
          /\ \A k \in 1..Len(TargetsOf(n.properties[p])) : ValidId(TargetsOf(n.properties[p])[k])

NoNullScalar(n) ==
    \A p \in DOMAIN n.properties :
        \A k \in 1..Len(ScalarsOf(n.properties[p])) : ScalarsOf(n.properties[p])[k] # SNull

IsArray(v) == v.variant \in {"Scalars", "ObjectRefs"}
ArrayLen(v) == IF v.variant = "Scalars" THEN Len(v.scalars) ELSE Len(v.refs)

\* C2: for a node list sorted by (graph, id) with valid identifiers, no Null
\* scalar and a type or a property on every node, write_rdf followed by
\* read_rdf in the same format returns a node list equal to the input.
C2_RdfRoundTrip ==
    (/\ pc = "read"
     /\ StrictlySorted(nodes)
     /\ \A i \in 1..Len(nodes) :
            /\ ValidNames(nodes[i])
            /\ NoNullScalar(nodes[i])
            /\ nodes[i].types # {} \/ DOMAIN nodes[i].properties # {})
        => rdfFile.ok /\ restored = Ok(nodes)

\* the node lists of C2 that RDF carries unchanged: every array has two
\* members or more, no predicate is rdf:type, and the format has named
\* graphs when a node is in one
RdfCarries(ns, fmt) ==
    /\ StrictlySorted(ns)
    /\ \A i \in 1..Len(ns) :
          /\ ValidNames(ns[i])
          /\ NoNullScalar(ns[i])
          /\ ns[i].types # {} \/ DOMAIN ns[i].properties # {}
          /\ RDF_TYPE \notin DOMAIN ns[i].properties
          /\ \A p \in DOMAIN ns[i].properties :
                IsArray(ns[i].properties[p]) => ArrayLen(ns[i].properties[p]) >= 2
          /\ ns[i].graph # None => fmt \in {"NQuads", "TriG"}

\* C2 (amended): for a node list strictly sorted by (graph, id) with valid
\* identifiers, no Null scalar, no array of fewer than two members, no
\* predicate rdf:type and a type or a property on every node, in a format
\* that has named graphs when a node is in one, write_rdf succeeds and
\* read_rdf of the file returns a node list equal to the input.
C2_RdfRoundTripCarried ==
    (pc \in {"written", "read"} /\ RdfCarries(nodes, rdfFormat))
        => /\ rdfFile.ok
           /\ pc = "read" => restored = Ok(nodes)

\* C2 witness: a list of a node with a two-member array and a node of a named
\* graph has been written and read back
C2_Witness ==
    /\ pc = "read"
    /\ RdfCarries(nodes, rdfFormat)
    /\ Len(nodes) = 2
    /\ \E i \in 1..Len(nodes) : nodes[i].graph # None
    /\ \E i \in 1..Len(nodes) : \E p \in DOMAIN nodes[i].properties :
          IsArray(nodes[i].properties[p]) /\ ArrayLen(nodes[i].properties[p]) = 2
    /\ restored = Ok(nodes)

\* the predicates of node n whose value is Scalar(Null)
NullPredicates(n) == {p \in DOMAIN n.properties : n.properties[p] = PScalar(SNull)}

\* the quads of the file about predicate p of the node (graph, id)
QuadsAbout(qs, graph, id, p) ==
    {k \in 1..Len(qs) :
        /\ subject_to_id(qs[k].subject) = id
        /\ graph_name_to_string(qs[k].graph_name) = graph
        /\ qs[k].predicate = p}

\* the value yields a quad
Written(v) ==
    \/ \E k \in 1..Len(ScalarsOf(v)) : ScalarsOf(v)[k] # SNull
    \/ TargetsOf(v) # <<>>

\* the value is one the cardinality promotion rebuilds: a bare value, or an
\* array of two or more members and no Null
Rebuilt(v) ==
    /\ \A k \in 1..Len(ScalarsOf(v)) : ScalarsOf(v)[k] # SNull
    /\ IsArray(v) => ArrayLen(v) >= 2

OnlyNodeOfKey(ns, i) == \A j \in 1..Len(ns) : (ns[j].id = ns[i].id /\ ns[j].graph = ns[i].graph) => j = i

RestoredOf(n) == {j \in 1..Len(restored.nodes) :
                    restored.nodes[j].id = n.id /\ restored.nodes[j].graph = n.graph}

\* C9: after a successful write_rdf of a node with a Scalar(Null) predicate the
\* file holds no quad for that predicate, and read_rdf returns the node without
\* it and with its types and every other predicate unchanged.
C9_NullDropped ==
    (pc = "read" /\ rdfFile.ok) =>
        \A i \in 1..Len(nodes) : \A p \in NullPredicates(nodes[i]) :
            OnlyNodeOfKey(nodes, i) =>
                /\ QuadsAbout(rdfFile.quads, nodes[i].graph, nodes[i].id, p) = {}
                /\ restored.ok
                /\ \E j \in RestoredOf(nodes[i]) :
                      /\ restored.nodes[j].types = nodes[i].types
                      /\ restored.nodes[j].properties =
                            [q \in DOMAIN nodes[i].properties \ {p} |-> nodes[i].properties[q]]

\* C9 (amended): after a successful write_rdf of a node with a Scalar(Null)
\* predicate (the only node of its key, no predicate rdf:type) the file holds
\* no quad for that predicate; if the node has a type or another value that is
\* written, read_rdf returns the node without the predicate, with its types
\* unchanged and with every other predicate unchanged whose value is bare and
\* not Null or an array of two or more members and no Null.
C9_NullDroppedWritten ==
    (pc = "read" /\ rdfFile.ok) =>
        \A i \in 1..Len(nodes) : \A p \in NullPredicates(nodes[i]) :
            (OnlyNodeOfKey(nodes, i) /\ RDF_TYPE \notin DOMAIN nodes[i].properties) =>
                /\ QuadsAbout(rdfFile.quads, nodes[i].graph, nodes[i].id, p) = {}
                /\ restored.ok
                /\ (nodes[i].types # {}
                        \/ \E q \in DOMAIN nodes[i].properties : Written(nodes[i].properties[q]))
                    => \E j \in RestoredOf(nodes[i]) :
                          /\ restored.nodes[j].types = nodes[i].types
                          /\ p \notin DOMAIN restored.nodes[j].properties
                          /\ \A q \in DOMAIN nodes[i].properties :
                                Rebuilt(nodes[i].properties[q]) /\ q # p =>
                                    /\ q \in DOMAIN restored.nodes[j].properties
                                    /\ restored.nodes[j].properties[q] = nodes[i].properties[q]

\* C9 witness: a node with a type, a Scalar(Null) predicate and a String
\* predicate has been written and read back without the Null predicate
C9_Witness ==
    /\ pc = "read"
    /\ rdfFile.ok
    /\ \E i \in 1..Len(nodes) :
          /\ OnlyNodeOfKey(nodes, i)
          /\ nodes[i].types # {}
          /\ NullPredicates(nodes[i]) = {"ex:p"}
          /\ "ex:q" \in DOMAIN nodes[i].properties
          /\ nodes[i].properties["ex:q"] = PScalar(SString("x"))
          /\ \E j \in RestoredOf(nodes[i]) :
                DOMAIN restored.nodes[j].properties = {"ex:q"}

\* literal or reference: the two kinds of a quad's object and of a stored value
KindOfTerm(t) == IF t.kind = "Literal" THEN "literal" ELSE "reference"
KindOfValue(v) == IF v.variant \in {"Scalar", "Scalars"} THEN "literal" ELSE "reference"

QuadKey(q) == <<graph_name_to_string(q.graph_name), subject_to_id(q.subject)>>

\* the accumulation map of read_rdf before the k-th quad of the file
Before(k) == IngestQuads(Going(EmptyMap), SubSeq(rdfFile.quads, 1, k - 1))

\* the k-th quad of the file meets a stored value of the other kind
Conflict(k) ==
    LET q == rdfFile.quads[k]
    IN /\ Before(k).err = ""
       /\ q.predicate # RDF_TYPE
       /\ term_to_property(q.object).err = ""
       /\ QuadKey(q) \in DOMAIN Before(k).acc
       /\ q.predicate \in DOMAIN Before(k).acc[QuadKey(q)].properties
       /\ KindOfValue(Before(k).acc[QuadKey(q)].properties[q.predicate]) # KindOfTerm(q.object)

\* C10: when read_rdf meets a quad whose object is of the other kind than the
\* value stored for its (node, predicate), the stored value becomes the bare
\* new value, with no error and no array; if the quad is the last of the file
\* the node returned holds the bare new value.
C10_OtherKindOverwrites ==
    \A k \in 1..Len(rdfFile.quads) :
        Conflict(k) =>
            LET q == rdfFile.quads[k]
                after == ingest_quad(Before(k), q)
                bare == IF q.object.kind = "Literal"
                        THEN PScalar(literal_to_scalar(q.object).scalar)
                        ELSE PObjectRef(subject_to_id(q.object))
            IN /\ after.err = ""
               /\ after.acc[QuadKey(q)].properties[q.predicate] = bare
               /\ (k = Len(rdfFile.quads) /\ pc = "read") =>
                     /\ restored.ok
                     /\ \E j \in 1..Len(restored.nodes) :
                           /\ <<restored.nodes[j].graph, restored.nodes[j].id>> = QuadKey(q)
                           /\ restored.nodes[j].properties[q.predicate] = bare

\* C10 witness: a file of two literals and then a reference for one predicate
\* has been read, and the node holds the bare reference
C10_Witness ==
    /\ pc = "read"
    /\ Len(rdfFile.quads) = 3
    /\ Conflict(3)
    /\ Before(3).acc[QuadKey(rdfFile.quads[3])].properties[rdfFile.quads[3].predicate].variant
          = "Scalars"
    /\ restored.ok
    /\ Len(restored.nodes) = 1
    /\ restored.nodes[1].properties[rdfFile.quads[3].predicate].variant = "ObjectRef"

----------------------------------------------------------------------------
(* Properties of parse_jsonld_document.                                    *)

\* the node objects of the document: the entries of its top-level array, or
\* of the array under its @graph
EntriesOfDocument(doc) ==
    IF doc.k = "array" THEN doc.a
    ELSE IF doc.k = "object" /\ HasKey(doc, "@graph") /\ Get(doc, "@graph").k = "array"
         THEN Get(doc, "@graph").a
    ELSE <<>>

IsWrapper(v) == v.k = "object" /\ (HasKey(v, "@set") \/ HasKey(v, "@list"))
Unwrapped(v) == IF HasKey(v, "@set") THEN Get(v, "@set") ELSE Get(v, "@list")

\* the members of an array value, nested arrays and @set/@list unwrapped
RECURSIVE MembersOf(_)
MembersOf(v) ==
    IF v.k = "array" THEN Concat([i \in 1..Len(v.a) |-> MembersOf(v.a[i])])
    ELSE IF IsWrapper(v) THEN MembersOf(Unwrapped(v))
    ELSE <<v>>

RECURSIVE IsArrayValue(_)
IsArrayValue(v) == v.k = "array" \/ (IsWrapper(v) /\ IsArrayValue(Unwrapped(v)))

\* a member that denotes another node: an object with an @id, or a bare
\* string under @type:@id coercion or that looks like an absolute identifier
ReferenceMember(m, coerced) ==
    \/ m.k = "object" /\ HasKey(m, "@id")
    \/ m.k = "string" /\ (coerced \/ IriParses(m.s))

\* a member that is a literal: a value object, a null, boolean or number, any
\* other object, or a bare string that is not a reference
LiteralMember(m, coerced) == ~ReferenceMember(m, coerced)

\* the array-valued properties of the document that hold a literal member and
\* a reference member
MixedArrays(doc) ==
    LET entries == EntriesOfDocument(doc)
        coerced == doc.k = "object" /\ HasKey(doc, "@context")
    IN {<<i, key>> \in (1..Len(entries)) \X {"ex:p"} :
          /\ HasKey(entries[i], key)
          /\ IsArrayValue(Get(entries[i], key))
          /\ LET members == MembersOf(Get(entries[i], key))
             IN /\ \E k \in 1..Len(members) : LiteralMember(members[k], coerced)
                /\ \E k \in 1..Len(members) : ReferenceMember(members[k], coerced)}

\* C7: parse_jsonld_document fails with a JsonLd error and returns no node
\* list whenever a property value is an array that, after unwrapping nested
\* arrays and @set/@list members, holds a literal member and an
\* object-reference member.
C7_MixedArrayFails ==
    (pc = "parsed" /\ MixedArrays(jsonInput) # {}) => restored = Err("JsonLd")

\* the objects of the document without an @id, or with an empty one
Anonymous(object) == GetStr(object, "@id") \in {None, Some("")}

\* the object's own entries other than @context and @graph
OwnContent(object) == SelectSeq(object.a, LAMBDA e : e.key \notin {"@context", "@graph"})

SurrogateIds(result) ==
    {result.nodes[i].id : i \in {j \in 1..Len(result.nodes) :
                                    StartsWith(result.nodes[j].id, "urn:uuid:")}}

\* the document is two anonymous objects
AnonymousPair(doc) ==
    /\ Len(EntriesOfDocument(doc)) = 2
    /\ \A i \in 1..2 : Anonymous(EntriesOfDocument(doc)[i])

\* C8: two objects with an absent or empty @id parsed in one document get one
\* surrogate id exactly when their entries other than @context and @graph are
\* equal, and each gets the id it gets when parsed alone in a document of its
\* own.
C8_SurrogateIdOfContent ==
    (pc = "parsed" /\ AnonymousPair(jsonInput)) =>
        LET first == EntriesOfDocument(jsonInput)[1]
            second == EntriesOfDocument(jsonInput)[2]
            alone(object) == SurrogateIds(parse_jsonld_document(JArray(<<object>>)))
        IN /\ restored.ok
           /\ Cardinality(alone(first)) = 1 /\ Cardinality(alone(second)) = 1
           /\ SurrogateIds(restored) = alone(first) \cup alone(second)
           /\ (alone(first) = alone(second)) <=> (OwnContent(first) = OwnContent(second))

\* C8 witness: two anonymous objects that differ only in their @context were
\* parsed under an active context and got one id
C8_Witness ==
    /\ pc = "parsed"
    /\ AnonymousPair(jsonInput)
    /\ jsonInput.k = "object"
    /\ EntriesOfDocument(jsonInput)[1] # EntriesOfDocument(jsonInput)[2]
    /\ HasKey(EntriesOfDocument(jsonInput)[1], "@context")
    /\ OwnContent(EntriesOfDocument(jsonInput)[1]) = OwnContent(EntriesOfDocument(jsonInput)[2])
    /\ Cardinality(SurrogateIds(restored)) = 1
    /\ Len(restored.nodes) = 1

----------------------------------------------------------------------------
(* Properties of the conversion of JSON-LD to RDF and back.                *)

\* the node list without the properties whose value is an explicit Null
WithoutNull(ns) ==
    [i \in 1..Len(ns) |->
        [ns[i] EXCEPT !.properties =
            [p \in DOMAIN ns[i].properties \ NullPredicates(ns[i]) |-> ns[i].properties[p]]]]

\* C4: parsing the document converted to RDF and back to JSON-LD yields the
\* node list parsed from the original document, without its Null properties.
C4_JsonLdRdfRoundTrip ==
    pc = "reparsed" => reparsed = Ok(WithoutNull(nodes))

\* no String scalar of the node looks like an absolute identifier
NoIriText(n) ==
    \A p \in DOMAIN n.properties :
        \A k \in 1..Len(ScalarsOf(n.properties[p])) :
            LET sv == ScalarsOf(n.properties[p])[k]
            IN sv.tag = "String" => ~IriParses(sv.s)

\* the node lists that RDF and the JSON-LD writer carry: every node has a type
\* or a property, no property is named rdf:type, every array has two or more
\* members and no Null, and no String scalar looks like an absolute identifier
Survives(ns) ==
    \A i \in 1..Len(ns) :
        /\ ns[i].types # {} \/ DOMAIN ns[i].properties # {}
        /\ RDF_TYPE \notin DOMAIN ns[i].properties
        /\ NoIriText(ns[i])
        /\ \A p \in DOMAIN ns[i].properties : Rebuilt(ns[i].properties[p])

\* C4 (amended): when both conversions succeed and the node list parsed from
\* the original document, without its Null properties, is one that survives,
\* parsing the converted document yields that node list.
C4_JsonLdRdfRoundTripSurviving ==
    (pc = "reparsed" /\ Survives(WithoutNull(nodes))) => reparsed = Ok(WithoutNull(nodes))

\* C4 witness: a document with a node of a named graph, a Null property, a
\* number and an array of two references was converted and parsed again
C4_Witness ==
    /\ pc = "reparsed"
    /\ Survives(WithoutNull(nodes))
    /\ reparsed = Ok(WithoutNull(nodes))
    /\ Len(nodes) = 2
    /\ WithoutNull(nodes) # nodes
    /\ \E i \in 1..Len(nodes) : nodes[i].graph # None
    /\ \E i \in 1..Len(nodes) : \E p \in DOMAIN nodes[i].properties :
          nodes[i].properties[p] = PScalar(SNumber(30))
    /\ \E i \in 1..Len(nodes) : \E p \in DOMAIN nodes[i].properties :
          nodes[i].properties[p].variant = "ObjectRefs" /\ ArrayLen(nodes[i].properties[p]) = 2

----------------------------------------------------------------------------
(* Properties of the output file.                                          *)

\* C11: a run of a conversion either succeeds and leaves the full result at
\* the output path, or fails and leaves the output path as it was before.
C11_AtomicOutput ==
    [][/\ pc' = "done" => outputFile' = Some(rdfFile'.quads)
       /\ pc' = "failed" => outputFile' = outputFile]_vars

\* the document of the end-to-end example
ExampleDocument ==
    Obj(<<Entry("@graph", JArray(<<
        Obj(<<Entry("@id", JString("ex:1")), Entry("@type", JString("ex:Person")),
              Entry("ex:name", JString("Alice")),
              Entry("ex:knows", JArray(<<RefObject("ex:2")>>))>>),
        Obj(<<Entry("@id", JString("ex:2")), Entry("@type", JString("ex:Person")),
              Entry("ex:name", JString("Bob"))>>)>>))>>)

ExampleFlattened == pc = "written" /\ jsonInput = ExampleDocument

SheetsWith(columns, rows) ==
    {i \in 1..Len(workbook) : workbook[i].columns = columns /\ workbook[i].rows = rows}

\* the data rows of a sheet of the workbook
RowsOf(name) == Tail(SheetRange(workbook, name))

MetadataKinds == [i \in 1..Len(RowsOf(METADATA_SHEET)) |-> RowsOf(METADATA_SHEET)[i][1]]

ExampleEntitiesAndMetadata ==
    /\ Len(workbook) = 4
    /\ RowsOf(ENTITIES_SHEET) = <<<<"ex:1", "ex:Person">>, <<"ex:2", "ex:Person">>>>
    /\ MetadataKinds = <<"type", "child">>

\* C12 as stated: flattening the example document gives the Entities rows
\* (ex:1,ex:Person),(ex:2,ex:Person), one type and one child Metadata row, a
\* sheet with columns (id,name) and rows (ex:1,Alice),(ex:2,Bob), and a sheet
\* with columns (ParentId,knowsId) and the single row (ex:1,ex:2).
C12_ExampleAsStated ==
    ExampleFlattened =>
        /\ ExampleEntitiesAndMetadata
        /\ SheetsWith(<<"id", "name">>, <<<<"ex:1", "Alice">>, <<"ex:2", "Bob">>>>) # {}
        /\ SheetsWith(<<"ParentId", "knowsId">>, <<<<"ex:1", "ex:2">>>>) # {}

\* C12: flattening the example document gives the Entities rows
\* (ex:1,ex:Person),(ex:2,ex:Person), the Metadata rows (type, ex_Person,
\* ex:Person, "") and (child, ex_Person__ex_knows, ex:Person, ex:knows), the
\* sheet ex_Person with columns (id, ex:name) and the rows (ex:1, "Alice"),
\* (ex:2, "Bob") whose cells are the JSON text of the names, quotes included,
\* and the sheet ex_Person__ex_knows with columns (ParentId, ex:knowsId) and
\* the single row (ex:1, ex:2).
C12_ExampleFlattens ==
    ExampleFlattened =>
        /\ ExampleEntitiesAndMetadata
        /\ RowsOf(METADATA_SHEET) =
              <<<<"type", "ex_Person", "ex:Person", "">>,
                <<"child", "ex_Person__ex_knows", "ex:Person", "ex:knows">>>>
        /\ workbook[3] = SheetTable("ex_Person", <<"id", "ex:name">>,
                                    <<<<"ex:1", "\"Alice\"">>, <<"ex:2", "\"Bob\"">>>>)
        /\ workbook[4] = SheetTable("ex_Person__ex_knows", <<"ParentId", "ex:knowsId">>,
                                    <<<<"ex:1", "ex:2">>>>)

C12_Witness == ExampleFlattened /\ Len(workbook) = 4 /\ outputFile = Some(workbook)

\* a parser has returned a node list
Parsed == pc \in {"parsed", "read"} /\ restored.ok

\* C13: the node list a parser returns (parse_jsonld_document, read_rdf,
\* read_nodes) is strictly sorted by (graph, id) with the default graph first,
\* so it holds at most one node per (graph, id), whatever the order of the
\* statements, rows or sheets of the input.
C13_ParsedSorted == Parsed => StrictlySorted(restored.nodes)

\* rows of the workbook that are not in key order, read into three nodes
C13_Witness ==
    /\ Parsed
    /\ HasSheet(workbook, ENTITIES_SHEET)
    /\ RowsOf(ENTITIES_SHEET) = <<<<"b", "T", "g">>, <<"a", "T", "">>>>
    /\ Len(restored.nodes) = 3
    /\ restored.nodes[1].graph = None
    /\ restored.nodes[3].graph = Some("g")

StatedKeys(stmts) == {<<stmts[i].graph, stmts[i].id>> : i \in 1..Len(stmts)}

\* the names stated for a key by the statements of a kind
StatedNames(stmts, key, kind) ==
    {stmts[i].name : i \in {j \in 1..Len(stmts) :
        stmts[j].graph = key[1] /\ stmts[j].id = key[2] /\ stmts[j].kind = kind}}

\* one node per stated key, holding what was stated under that key and no more
Accumulated(stmts, ns) ==
    /\ Len(ns) = Cardinality(StatedKeys(stmts))
    /\ \A key \in StatedKeys(stmts) :
          \E i \in 1..Len(ns) :
             /\ ns[i].graph = key[1]
             /\ ns[i].id = key[2]
             /\ ns[i].types = StatedNames(stmts, key, "type")
             /\ DOMAIN ns[i].properties = StatedNames(stmts, key, "property")

ParsedFrom(stmts) ==
    \/ pc = "parsed" /\ jsonInput = DocumentOf(stmts)
    \/ pc = "read" /\ rdfFile.ok /\ rdfFile.quads = QuadsOf(stmts)

\* the statement a JSON-LD entry makes
StatementOfEntry(e) ==
    LET object == IF HasKey(e, "@graph") THEN Get(e, "@graph").a[1] ELSE e
        graph == IF HasKey(e, "@graph") THEN Some(Get(e, "@id").s) ELSE None
        name == CHOOSE key \in Keys(object) : key # "@id" /\ key # "@type"
    IN IF HasKey(object, "@type")
       THEN Statement(graph, Get(object, "@id").s, "type", Get(object, "@type").s)
       ELSE Statement(graph, Get(object, "@id").s, "property", name)

\* the statement a quad makes, its subject and graph being named nodes
StatementOfQuad(q) ==
    Statement(IF q.graph_name = DefaultGraph THEN None ELSE Some(q.graph_name.value),
              q.subject.value,
              IF q.predicate = RDF_TYPE THEN "type" ELSE "property",
              IF q.predicate = RDF_TYPE THEN q.object.value ELSE q.predicate)

\* the statements of the input that was parsed
StatementsOfInput ==
    IF pc = "parsed"
    THEN [i \in 1..Len(jsonInput.a) |-> StatementOfEntry(jsonInput.a[i])]
    ELSE [i \in 1..Len(rdfFile.quads) |-> StatementOfQuad(rdfFile.quads[i])]

\* C14: in JSON-LD parsing and in RDF parsing, statements about one id under
\* two graphs (or under a graph and under none) give two nodes, each with only
\* the types and properties stated under its own graph, and statements with
\* the same (graph, id) give one node.
C14_NodePerGraphAndId ==
    ParsedFrom(StatementsOfInput) => restored.ok /\ Accumulated(StatementsOfInput, restored.nodes)

\* ex:a typed under ex:g and given a property under no graph, and ex:a stated
\* twice under ex:g
C14_Witness ==
    \/ /\ ParsedFrom(<<Statement(Some("ex:g"), "ex:a", "type", "ex:T"),
                       Statement(None, "ex:a", "property", "ex:p")>>)
       /\ pc = "parsed"
       /\ Len(restored.nodes) = 2
       /\ restored.nodes[1].types = {}
       /\ restored.nodes[2].types = {"ex:T"}
    \/ /\ ParsedFrom(<<Statement(Some("ex:g"), "ex:a", "type", "ex:T"),
                       Statement(Some("ex:g"), "ex:a", "property", "ex:p")>>)
       /\ pc = "read"
       /\ Len(restored.nodes) = 1

\* read_nodes has returned
ReadDone == pc = "read" /\ workbook \in WorkbookPool

\* the sheets the Metadata rows with a kind name
NamedSheets == {string_at(row, 1) : row \in Range(MetadataRows(SheetRange(workbook, METADATA_SHEET)))}

LacksRequiredSheet == ~HasSheet(workbook, METADATA_SHEET) \/ ~HasSheet(workbook, ENTITIES_SHEET)

UnknownKind ==
    HasSheet(workbook, METADATA_SHEET) /\ ~MetadataKindsKnown(SheetRange(workbook, METADATA_SHEET))

LacksNamedSheet ==
    HasSheet(workbook, METADATA_SHEET) /\ \E name \in NamedSheets : ~HasSheet(workbook, name)

\* a cell of a type sheet that is not JSON text
BadCell ==
    \E i \in 1..Len(workbook) : \E r \in 1..Len(workbook[i].rows) :
        \E c \in 3..Len(workbook[i].rows[r]) :
            /\ Len(workbook[i].columns) = 3
            /\ ~EndsWith(workbook[i].columns[c], "Id")
            /\ Trim(workbook[i].rows[r][c]) # ""
            /\ ~ParseJsonText(workbook[i].rows[r][c]).ok

\* C15 as stated: read_nodes fails with InvalidWorkbook and returns no nodes
\* when the workbook lacks Metadata, lacks Entities, lacks a sheet that a
\* Metadata row with a kind names, or has a Metadata row of an unknown kind.
C15_DefectIsInvalidWorkbook ==
    ReadDone /\ (LacksRequiredSheet \/ UnknownKind \/ LacksNamedSheet)
        => restored = Err("InvalidWorkbook")

\* C15: read_nodes fails and returns no nodes when the workbook lacks
\* Metadata, lacks Entities, has a Metadata row of an unknown kind, or lacks a
\* sheet that a Metadata row with a kind names.  The error is InvalidWorkbook
\* in the first three cases; in the last it is InvalidWorkbook unless a cell of
\* a type sheet that is not JSON text was read first, which gives a JSON error.
C15_DefectFails ==
    /\ ReadDone /\ (LacksRequiredSheet \/ UnknownKind) => restored = Err("InvalidWorkbook")
    /\ ReadDone /\ LacksNamedSheet =>
          \/ restored = Err("InvalidWorkbook")
          \/ restored = Err("Json") /\ BadCell

\* each defect alone, and a missing child sheet behind a cell that is not JSON
C15_Witness ==
    /\ ReadDone
    /\ ~LacksRequiredSheet /\ ~UnknownKind /\ LacksNamedSheet
    /\ restored = Err("Json")

\* the metadata of the workbook that was read
MetadataRange == SheetRange(workbook, METADATA_SHEET)

ChildSheetPredicates ==
    {ChildSheetMap(MetadataRange)[s][2] : s \in DOMAIN ChildSheetMap(MetadataRange)}

\* the targets the rows of a child sheet give to a parent, in row order
RowTargets(range, key) ==
    LET wide == Len(Head(range)) >= 3
        target(row) == string_at(row, IF wide THEN 2 ELSE 1)
        graph(row) == IF wide THEN string_at(row, 1) ELSE ""
        rows == SelectSeq(Tail(range), LAMBDA row :
                    /\ string_at(row, 0) # "" /\ target(row) # ""
                    /\ NodeKey(string_at(row, 0), graph(row)) = key)
    IN [i \in 1..Len(rows) |-> target(rows[i])]

\* the targets of a parent's predicate, the child sheets taken in the order read
ExpectedRefs(key, predicate) ==
    Concat([i \in 1..Len(order[2]) |->
        IF ChildSheetMap(MetadataRange)[order[2][i]][2] = predicate
        THEN RowTargets(SheetRange(workbook, order[2][i]), key)
        ELSE <<>>])

\* a type sheet gives the parent a value of the predicate
TypeSheetGives(key, predicate) ==
    \E s \in DOMAIN TypeSheetMap(MetadataRange) :
        LET range == SheetRange(workbook, s)
        IN \E r \in 2..Len(range) : \E c \in 2..(Len(range[r]) - 1) :
              /\ string_at(range[r], 0) # ""
              /\ NodeKey(string_at(range[r], 0), string_at(range[r], 1)) = key
              /\ string_at(Head(range), c) # ""
              /\ Trim(string_at(range[r], c)) # ""
              /\ parse_property_entry(string_at(Head(range), c), string_at(range[r], c)).predicate
                    = predicate

\* every sheet is there, every kind is known and every cell is JSON text
WellFormed == ~LacksRequiredSheet /\ ~UnknownKind /\ ~LacksNamedSheet /\ ~BadCell

ParentKeys == {NodeKey(id, g) : id \in {"a", "b", "c"}, g \in {"", "g"}}

\* a child row names a parent that a type sheet gave the predicate to
VariantConflict ==
    \E key \in ParentKeys : \E p \in ChildSheetPredicates :
        ExpectedRefs(key, p) # <<>> /\ TypeSheetGives(key, p)

\* C16: the rows of a child sheet with a parent and a target append the target,
\* in row order, to the parent's ObjectRefs array of the sheet's predicate,
\* which is created when the predicate is absent; when the parent holds the
\* predicate with another variant, read_nodes fails with InvalidWorkbook.
C16_ChildRowsAppend ==
    ReadDone /\ WellFormed =>
        IF VariantConflict
        THEN restored = Err("InvalidWorkbook")
        ELSE /\ restored.ok
             /\ \A key \in ParentKeys : \A p \in ChildSheetPredicates :
                   ExpectedRefs(key, p) # <<>> =>
                       \E i \in 1..Len(restored.nodes) :
                          /\ <<restored.nodes[i].graph, restored.nodes[i].id>> = key
                          /\ p \in DOMAIN restored.nodes[i].properties
                          /\ restored.nodes[i].properties[p] = PObjectRefs(ExpectedRefs(key, p))

\* two child sheets of one predicate read into one array, the second first
C16_Witness ==
    /\ ReadDone /\ WellFormed /\ restored.ok
    /\ order[2] = <<"U__p", "T__p">>
    /\ \E i \in 1..Len(restored.nodes) :
          /\ "p" \in DOMAIN restored.nodes[i].properties
          /\ restored.nodes[i].properties["p"] = PObjectRefs(<<"z", "y", "x">>)

\* the ids of the rows of the Entities sheet
EntityIds == {string_at(row, 0) : row \in Range(RowsOf(ENTITIES_SHEET))} \ {""}

\* C20: the nodes read_nodes returns are exactly the nodes whose id has a row
\* in the Entities sheet; a row of a type sheet or of a child sheet whose id
\* has no Entities row creates no node.
C20_EntitiesDecideNodes ==
    ReadDone /\ restored.ok => {restored.nodes[i].id : i \in 1..Len(restored.nodes)} = EntityIds

\* the table of extensions
FormatTable ==
    [e \in {"ttl", "turtle", "nt", "nq", "trig", "jsonld"} |->
        CASE e \in {"ttl", "turtle"} -> "Turtle"
          [] e = "nt" -> "NTriples"
          [] e = "nq" -> "NQuads"
          [] e = "trig" -> "TriG"
          [] OTHER -> "JsonLd"]

\* the path's extension, in lower case, is in the table
InTable(path) ==
    extension(path) # None /\ to_ascii_lowercase(extension(path)[1]) \in DOMAIN FormatTable

TableFormat(path) == FormatTable[to_ascii_lowercase(extension(path)[1])]

\* read_rdf has been called on the input path with the format of the command line
RdfFileRead == pc \in {"read", "failed"} /\ syncResult = NotRun /\ args.from = "Rdf"

\* the sync command has run a routine that writes RDF
RdfWritten == pc \in {"done", "failed"} /\ syncResult.called # "" /\ args.to = "Rdf"

\* the sync command has run a routine that reads RDF
RdfSynced == pc \in {"done", "failed"} /\ syncResult.called # "" /\ args.from = "Rdf"

\* the format read_rdf selects for the input path
ReadSelection ==
    RdfFileRead =>
        /\ args.rdf_format # None => rdfFormat = args.rdf_format[1]
        /\ args.rdf_format = None /\ InTable(args.input) => rdfFormat = TableFormat(args.input)
        /\ args.rdf_format = None /\ ~InTable(args.input) => restored = Err("Rdf")

\* the format the sync command selects for the output path, the table applying
WriteSelection ==
    RdfWritten =>
        /\ args.rdf_format # None => syncResult.format = args.rdf_format[1]
        /\ args.rdf_format = None /\ InTable(args.output) =>
              syncResult.format = TableFormat(args.output)

\* C17 as stated: an explicit format is always used; with none, the format is
\* looked up from the path's extension, case-insensitively, in the table; with
\* none and an extension outside the table, or no extension, the operation
\* fails instead of choosing a format.
C17_SelectionOrError ==
    /\ ReadSelection
    /\ WriteSelection
    /\ RdfWritten /\ args.rdf_format = None /\ ~InTable(args.output) => syncResult.err # ""

\* C17: read_rdf uses the format it is given; given none it looks the format
\* up from the input path's extension, case-insensitively, in the table, and
\* fails with an RDF error when the extension is outside the table or absent.
\* The sync command gives read_rdf no format, so its --rdf-format option does
\* not reach the reading.  For writing, the sync command uses --rdf-format when
\* given, else the table on the output path, else Turtle.
C17_FormatSelection ==
    /\ ReadSelection
    /\ WriteSelection
    /\ RdfWritten /\ args.rdf_format = None /\ ~InTable(args.output) => syncResult.format = "Turtle"
    /\ RdfSynced =>
          IF InTable(args.input)
          THEN syncResult.format = TableFormat(args.input)
          ELSE syncResult.err = "Rdf" /\ syncResult.written = None

\* RDF written in Turtle to a path whose extension is outside the table
C17_Witness ==
    /\ RdfWritten /\ pc = "done"
    /\ args.rdf_format = None /\ args.output = "out.rdf"
    /\ syncResult.format = "Turtle"
    /\ outputFile = Some(rdfFile.quads) /\ rdfFile.quads # <<>>

\* the sync command has run on an existing input with a pair it does not support
UnsupportedRun ==
    /\ pc \in {"done", "failed"} /\ syncResult # NotRun
    /\ args.input_exists
    /\ args.from = args.to

NothingDone ==
    /\ syncResult.called = "" /\ syncResult.written = None
    /\ nodes = <<>> /\ workbook = (IF args.from = "Excel" THEN InputWorkbook ELSE <<>>)
    /\ jsonOutput = JNull /\ rdfFile.ok = (args.from = "Rdf")

NamesBoth ==
    /\ syncResult.err = "UnsupportedConversion"
    /\ syncResult.from = DataFormatName(args.from)
    /\ syncResult.to = DataFormatName(args.to)

\* C18 as stated: for a pair outside the six supported conversions,
\* execute_sync on an existing input returns UnsupportedConversion naming both
\* formats whatever the other arguments are, calls no conversion routine and
\* writes no output.
C18_UnsupportedAlways == UnsupportedRun => NamesBoth /\ NothingDone

\* C18: for a pair outside the six supported conversions, execute_sync on an
\* existing input calls no conversion routine and writes no output; it returns
\* UnsupportedConversion naming both formats when no context path is given or
\* the context file loads, and the error of loading the context otherwise.
C18_UnsupportedAfterContext ==
    UnsupportedRun =>
        /\ NothingDone
        /\ IF args.context = None \/ args.context = Some("ctx.json")
           THEN NamesBoth
           ELSE syncResult.err = load_json(args.context[1])

\* excel to excel with a context that loads, the output path left as it was
C18_Witness ==
    /\ UnsupportedRun /\ args.from = "Excel" /\ args.context = Some("ctx.json")
    /\ syncResult.from = "xlsx" /\ syncResult.to = "xlsx"
    /\ outputFile = Some(OldFile)

\* the quads of the file with the graph, subject and predicate of the k-th, in
\* file order
SameStatement(k) ==
    LET qs == rdfFile.quads
    IN SelectSeq(qs, LAMBDA q : QuadKey(q) = QuadKey(qs[k]) /\ q.predicate = qs[k].predicate)

OneKind(quads) == \A i, j \in 1..Len(quads) : KindOfTerm(quads[i].object) = KindOfTerm(quads[j].object)

\* the value the rule gives to quads of one kind: bare for one, an array of
\* all in file order for more
Promoted(quads) ==
    IF KindOfTerm(quads[1].object) = "literal"
    THEN IF Len(quads) = 1 THEN PScalar(literal_to_scalar(quads[1].object).scalar)
         ELSE PScalars([i \in 1..Len(quads) |-> literal_to_scalar(quads[i].object).scalar])
    ELSE IF Len(quads) = 1 THEN PObjectRef(subject_to_id(quads[1].object))
         ELSE PObjectRefs([i \in 1..Len(quads) |-> subject_to_id(quads[i].object)])

\* C19: when read_rdf has read n >= 1 quads of one (graph, subject, predicate),
\* the predicate not being rdf:type, whose objects are all literals or all
\* references, the node holds the bare Scalar or ObjectRef for n = 1 and for
\* n >= 2 the matching array of all n values in quad order, duplicates kept.
C19_SameKindPromotes ==
    pc = "read" /\ restored.ok =>
        \A k \in 1..Len(rdfFile.quads) :
            rdfFile.quads[k].predicate # RDF_TYPE /\ OneKind(SameStatement(k)) =>
                \E i \in 1..Len(restored.nodes) :
                    /\ <<restored.nodes[i].graph, restored.nodes[i].id>> = QuadKey(rdfFile.quads[k])
                    /\ rdfFile.quads[k].predicate \in DOMAIN restored.nodes[i].properties
                    /\ restored.nodes[i].properties[rdfFile.quads[k].predicate]
                          = Promoted(SameStatement(k))

\* three literals of one predicate, the third a repeat of the first, read
\* into an array of three
C19_Witness ==
    /\ pc = "read" /\ restored.ok
    /\ Len(rdfFile.quads) = 3
    /\ Len(SameStatement(1)) = 3 /\ OneKind(SameStatement(1))
    /\ rdfFile.quads[1].object.kind = "Literal"
    /\ rdfFile.quads[1] = rdfFile.quads[3] /\ rdfFile.quads[1] # rdfFile.quads[2]
    /\ restored.nodes[1].properties[rdfFile.quads[1].predicate].variant = "Scalars"
    /\ Len(restored.nodes[1].properties[rdfFile.quads[1].predicate].scalars) = 3

----------------------------------------------------------------------------
(* Properties of parse_jsonld_document on scoped contexts.                 *)

ParsedScoped == pc = "parsed" /\ jsonInput \in ScopedDocuments

\* the context an object is expanded with, given the one in force before it
Derived(object, before) ==
    IF HasKey(object, "@context")
    THEN Some(parse_context_value(Get(object, "@context"), before).context)
    ELSE before

\* the context in force before the entries of the document
InForceBefore(doc) == IF doc.k = "array" THEN None ELSE Derived(doc, None)

TopEntries(doc) == IF doc.k = "array" THEN doc.a ELSE Get(doc, "@graph").a

\* an object of the document, the graph that encloses it and the context
\* in force before it
Placed(object, graph, before) == [object |-> object, graph |-> graph, before |-> before]

Placements(doc) ==
    {Placed(e, None, InForceBefore(doc)) : e \in Range(TopEntries(doc))}
    \cup UNION {{Placed(n, GetStr(e, "@id"), Derived(e, InForceBefore(doc))) :
                    n \in Range(Get(e, "@graph").a)} :
                e \in {x \in Range(TopEntries(doc)) : HasKey(x, "@graph")}}

\* the object is a node of its own: it names no graph, or states something
StatesNode(object) ==
    ~HasKey(object, "@graph") \/ Keys(object) \ {"@id", "@graph", "@context"} # {}

NodeIdOf(object) ==
    IF GetStr(object, "@id") = None THEN generate_surrogate_id(object)
    ELSE GetStr(object, "@id")[1]

PropertyKeys(object) == Keys(object) \ {"@id", "@type", "@context", "@graph"}

\* the types and the properties of the object under a context
TypesUnder(object, context) ==
    {expand_term(context, t.s) : t \in Range(Get(object, "@type").a)}

PropertiesUnder(object, context) ==
    [p \in {expand_term(context, k) : k \in PropertyKeys(object)} |->
        LET k == CHOOSE k \in PropertyKeys(object) : expand_term(context, k) = p
        IN parse_property_value(Get(object, k), context,
                                context # None /\ p \in context[1].id_properties).value]

NodesAt(graph, id) == {n \in Range(restored.nodes) : n.graph = graph /\ n.id = id}

\* C21: every object of the document is expanded with the context derived
\* from the one in force before it and its own @context: the @context of an
\* entry reaches the entries under its @graph, and neither the entries
\* after it in the array nor the object that encloses it
C21_ContextScoped ==
    ParsedScoped =>
        /\ restored.ok
        /\ \A pl \in Placements(jsonInput) :
              StatesNode(pl.object) =>
                \E n \in NodesAt(pl.graph, NodeIdOf(pl.object)) :
                    /\ n.types = TypesUnder(pl.object, Derived(pl.object, pl.before))
                    /\ n.properties = PropertiesUnder(pl.object, Derived(pl.object, pl.before))

\* an entry changed the term name for itself and the entry under its @graph,
\* and the entry after it and the enclosing object kept the document's term
C21_Witness ==
    /\ ParsedScoped
    /\ restored.ok
    /\ \E a \in NodesAt(None, "ex:g"), b \in NodesAt(None, "ex:b"), n \in NodesAt(Some("ex:g"), "ex:n") :
          /\ "http://o/name" \in DOMAIN a.properties
          /\ "http://o/name" \in DOMAIN b.properties
          /\ "http://n/name" \in DOMAIN n.properties

\* C22: a key or type prefix:suffix whose prefix is a term of the context in
\* force, and which is no term itself, is read as the prefix's mapping
\* followed by the suffix
C22_CompactExpands ==
    ParsedScoped =>
        \A pl \in Placements(jsonInput) :
            LET context == Derived(pl.object, pl.before)
                compact(term) ==
                    /\ ColonAt(term) > 0
                    /\ SubSeq(term, 1, ColonAt(term) - 1) \in DOMAIN context[1].term_map
                    /\ term \notin DOMAIN context[1].term_map
                expanded(term) ==
                    context[1].term_map[SubSeq(term, 1, ColonAt(term) - 1)]
                        \o SubSeq(term, ColonAt(term) + 1, Len(term))
            IN StatesNode(pl.object) /\ context # None =>
                 \E n \in NodesAt(pl.graph, NodeIdOf(pl.object)) :
                    /\ \A k \in PropertyKeys(pl.object) :
                          compact(k) => expanded(k) \in DOMAIN n.properties
                    /\ \A t \in Range(Get(pl.object, "@type").a) :
                          compact(t.s) => expanded(t.s) \in n.types

\* C23: the entries under an object's @graph are nodes of the graph named
\* by the object's @id, the default graph when it has none, and the object
\* is a node of the graph that encloses it exactly when it has a key other
\* than @id, @graph and @context
C23_GraphRegistration ==
    ParsedScoped =>
        /\ restored.ok
        /\ {<<n.graph, n.id>> : n \in Range(restored.nodes)}
             = {<<pl.graph, NodeIdOf(pl.object)>> :
                    pl \in {x \in Placements(jsonInput) : StatesNode(x.object)}}

\* a graph object with properties: a node of the default graph, its entry a
\* node of the graph it names
C23_Witness ==
    /\ ParsedScoped
    /\ \E e \in Range(TopEntries(jsonInput)) :
          /\ HasKey(e, "@graph") /\ HasKey(e, "name") /\ GetStr(e, "@id") = Some("ex:g")
    /\ NodesAt(None, "ex:g") # {}
    /\ NodesAt(Some("ex:g"), "ex:n") # {}
    /\ NodesAt(Some("ex:g"), "ex:g") = {}

ParsedValue == pc = "parsed" /\ jsonInput \in ValueDocuments /\ restored.ok

\* the one property the document states, and what it was read as
StatedEntry == Get(jsonInput, "@graph").a[1]
StatedKey == CHOOSE k \in Keys(StatedEntry) : k # "@id"
StatedValue == Get(StatedEntry, StatedKey)
ReadValue == restored.nodes[1].properties["http://o/" \o StatedKey]

\* the document's context declares knows with "@type": "@id"
Coerced == StatedKey = "knows"

IsIdObject(m) == m.k = "object" /\ HasKey(m, "@id")
ReferenceString(m) == Coerced \/ looks_like_iri(m.s)

\* C24: an object with an @id key is read as an object reference, alone or
\* as a member of an array, and a bare string is read as an object reference
\* exactly when the predicate is coerced to @id or the string looks like an
\* absolute identifier, and as a String scalar otherwise
C24_ReferenceOrLiteral ==
    ParsedValue =>
        IF StatedValue.k = "array"
        THEN \A m \in Range(StatedValue.a) :
                /\ IsIdObject(m) => ReadValue.variant = "ObjectRefs"
                /\ m.k = "string" =>
                      IF ReferenceString(m) THEN ReadValue.variant = "ObjectRefs"
                      ELSE /\ ReadValue.variant = "Scalars"
                           /\ SString(m.s) \in Range(ReadValue.scalars)
        ELSE /\ IsIdObject(StatedValue) => ReadValue.variant = "ObjectRef"
             /\ StatedValue.k = "string" =>
                   IF ReferenceString(StatedValue) THEN ReadValue.variant = "ObjectRef"
                   ELSE ReadValue = PScalar(SString(StatedValue.s))

----------------------------------------------------------------------------
(* Properties of the tables of build_workbook.                             *)

\* the type a node's edges are filed under
FirstTypeOf(n) ==
    IF n.types = {} THEN "__untyped__"
    ELSE CHOOSE t \in n.types : \A u \in n.types : u = t \/ StrLt(t, u)

EdgeArrays(n) == {p \in DOMAIN n.properties : n.properties[p].variant = "ObjectRefs"}

\* the places of the input where (parent, predicate, target) is stated by a
\* node whose first type is t
Occurrences(t, predicate, parent, target) ==
    UNION {{<<i, k>> : k \in {x \in 1..Len(nodes[i].properties[predicate].refs) :
                                nodes[i].properties[predicate].refs[x] = target}} :
            i \in {j \in 1..Len(nodes) :
                      /\ nodes[j].id = parent
                      /\ FirstTypeOf(nodes[j]) = t
                      /\ predicate \in EdgeArrays(nodes[j])}}

MetadataOfKind(kind) == {r \in Range(workbook[2].rows) : r[1] = kind}

TableNamed(name) == workbook[CHOOSE i \in SheetsNamed(workbook, name) : TRUE]

RowPlaces(rows, row) == {k \in 1..Len(rows) : rows[k] = row}

\* the tables the Metadata rows of kind type name, in workbook order
TypeTablesOf(wb) ==
    SelectSeq(wb, LAMBDA t : \E r \in Range(wb[2].rows) : r[1] = "type" /\ r[2] = t.sheet_name)

WithoutEdgeArrays(n) ==
    [n EXCEPT !.properties = [p \in DOMAIN n.properties \ EdgeArrays(n) |-> n.properties[p]]]

\* C25 as stated: every edge of an ObjectRefs array is in exactly one row of
\* the child tables of its predicate, that of the node's first type, and no
\* type table has a column named by the predicate
C25_EdgesAsStated ==
    Built =>
        \A i \in 1..Len(nodes) : \A p \in EdgeArrays(nodes[i]) :
            /\ \A k \in 1..Len(nodes[i].properties[p].refs) :
                  LET row == <<nodes[i].id, nodes[i].properties[p].refs[k]>>
                      places == {<<r, x>> \in MetadataOfKind("child") \X (1..(MaxNodes * (MaxArr + 1))) :
                                    r[4] = p /\ x \in RowPlaces(TableNamed(r[2]).rows, row)}
                  IN /\ Cardinality(places) = 1
                     /\ \A pl \in places : pl[1][3] = FirstTypeOf(nodes[i])
            /\ \A r \in MetadataOfKind("type") : p \notin Range(TableNamed(r[2]).columns)

\* C25: the child tables are those of the pairs (first type, predicate) of
\* the ObjectRefs arrays; the table of a pair holds the row (id, target) once
\* for every place where a node of that first type and id lists the target
\* under the predicate, and no other row; the arrays write nothing to the
\* type tables and the Entities table
C25_EdgesOnce ==
    Built =>
        /\ {<<r[3], r[4]>> : r \in MetadataOfKind("child")}
             = UNION {{<<FirstTypeOf(nodes[i]), p>> : p \in EdgeArrays(nodes[i])} :
                        i \in 1..Len(nodes)}
        /\ \A r \in MetadataOfKind("child") :
              /\ TableNamed(r[2]).columns = <<"ParentId", r[4] \o "Id">>
              /\ \A row \in Range(TableNamed(r[2]).rows)
                            \cup UNION {{<<nodes[i].id, t>> : t \in {"a", "b", "c"}} : i \in 1..Len(nodes)} :
                    Cardinality(RowPlaces(TableNamed(r[2]).rows, row))
                        = Cardinality(Occurrences(r[3], r[4], row[1], row[2]))
        /\ Bind(build_workbook([i \in 1..Len(nodes) |-> WithoutEdgeArrays(nodes[i])]),
                LAMBDA plain :
                    /\ TypeTablesOf(workbook) = TypeTablesOf(plain)
                    /\ workbook[1] = plain[1])

\* a node of two types with an edge: one child table, under its first type,
\* while another node of the type brings the type table a column of the
\* predicate's name
C25_Witness ==
    /\ Built
    /\ \E i, j \in 1..Len(nodes) :
          /\ nodes[i].types = {"T", "U"}
          /\ "p" \in EdgeArrays(nodes[i])
          /\ nodes[i].properties["p"].refs # <<>>
          /\ nodes[j].types = {"T"}
          /\ "p" \in DOMAIN nodes[j].properties
          /\ nodes[j].properties["p"].variant = "Scalar"
    /\ {<<r[3], r[4]>> : r \in MetadataOfKind("child")} = {<<"T", "p">>}

\* C26: after read_nodes on a built workbook, every non-blank cell of every
\* column after id of every type sheet is a property of a node named by the
\* row's id cell: an object reference under the predicate of a column
\* <predicate>Id, the decoded JSON value under the name of any other column
C26_EveryColumnRead ==
    (pc = "read" /\ restored.ok) =>
        \A r \in MetadataOfKind("type") :
            \A k \in 1..Len(TableNamed(r[2]).rows) :
                \A c \in 2..Len(TableNamed(r[2]).columns) :
                    LET column == TableNamed(r[2]).columns[c]
                        cell == TableNamed(r[2]).rows[k][c]
                        predicate == IF EndsWith(column, "Id")
                                     THEN SubSeq(column, 1, Len(column) - 2) ELSE column
                    IN Trim(cell) # "" =>
                         \E n \in Range(restored.nodes) :
                            /\ n.id = TableNamed(r[2]).rows[k][1]
                            /\ predicate \in DOMAIN n.properties
                            /\ IF EndsWith(column, "Id")
                               THEN n.properties[predicate] = PObjectRef(cell)
                               ELSE /\ n.properties[predicate].variant \in {"Scalar", "Scalars"}
                                    /\ CellOf(n.properties[predicate]) = cell

\* the lists that hold the nodes of the list, each once, in another order
RECURSIVE Reorderings(_)
Reorderings(ns) ==
    IF ns = <<>> THEN {<<>>}
    ELSE UNION {{<<ns[i]>> \o rest :
                    rest \in Reorderings([k \in 1..(Len(ns) - 1) |->
                                              IF k < i THEN ns[k] ELSE ns[k + 1]])} :
                i \in 1..Len(ns)}

DistinctIds(ns) == \A i, j \in 1..Len(ns) : ns[i].id = ns[j].id => i = j

\* C27: for nodes of pairwise distinct ids, build_workbook gives the same
\* workbook for every order of the nodes: the same tables in the same order,
\* with the same names, columns and rows
C27_OrderIndependent ==
    (Built /\ DistinctIds(nodes)) =>
        \A other \in Reorderings(nodes) : build_workbook(other) = workbook

\* two nodes of one type, the later id first, and an edge table
C27_Witness ==
    /\ Built
    /\ Len(nodes) = 2
    /\ nodes[1].id = "b" /\ nodes[2].id = "a"
    /\ nodes[1].types = {"T"} /\ "T" \in nodes[2].types
    /\ MetadataOfKind("child") # {}
    /\ TableNamed("T").rows[1][1] = "a"

----------------------------------------------------------------------------
(* The flatten/unflatten run on the nodes of two graphs.                   *)

\* nodes of the default graph and of a named graph, with edge arrays
EdgePool ==
    {Node(id, graph, ts, props) :
        id \in Ids, graph \in {None, Some("g")}, ts \in {{}, {"T"}, {"T", "U"}},
        props \in {NoProperties,
                   One("p", PObjectRefs(<<"b">>)),
                   One("p", PObjectRefs(<<"b", "a">>)),
                   Two("p", PScalar(SNumber(1)), "q", PScalar(SString("x")))}}

\* the lists a parser returns: sorted by (graph, id), no key twice
InitFlattenGraphs ==
    /\ pc = "start"
    /\ nodes \in {ns \in NodeLists(EdgePool) : StrictlySorted(ns)}
    /\ workbook = <<>>
    /\ order = <<>>
    /\ restored = NotRead
    /\ RdfIdle
    /\ JsonIdle
    /\ outputFile = None
    /\ CliIdle

SpecFlattenGraphs == InitFlattenGraphs /\ [][NextFlatten]_vars

\* C28: read_nodes on a built workbook returns the same result whatever the
\* order in which it takes the type sheets and the child sheets from its
\* maps
C28_IngestionOrderFree ==
    pc = "read" =>
        \A typeOrder \in Orders(DOMAIN TypeSheetMap(SheetRange(workbook, METADATA_SHEET))),
           childOrder \in Orders(DOMAIN ChildSheetMap(SheetRange(workbook, METADATA_SHEET))) :
              read_nodes(workbook, typeOrder, childOrder) = restored

----------------------------------------------------------------------------
(* Properties of write_rdf followed by read_rdf: which nodes come back.    *)

\* the places of the list that write_rdf turns into a quad: every type, and
\* every member of a value that is an object reference or a non-Null scalar
QuadPlaces(ns) ==
    UNION {{<<i, "type", t>> : t \in ns[i].types}
           \cup UNION {{<<i, p, k>> : k \in {x \in 1..Len(ScalarsOf(ns[i].properties[p])) :
                                               ScalarsOf(ns[i].properties[p])[x] # SNull}}
                           \cup {<<i, p, k>> : k \in 1..Len(TargetsOf(ns[i].properties[p]))} :
                        p \in DOMAIN ns[i].properties} :
            i \in 1..Len(ns)}

HasQuad(n) == n.types # {} \/ \E p \in DOMAIN n.properties : Written(n.properties[p])

----------------------------------------------------------------------------
(* Properties of the columns of a type table.                              *)

\* the text build_workbook writes for a value of a type table
CellText(v) ==
    CASE v.variant = "Scalar" -> ScalarToJsonText(v.scalar)
      [] v.variant = "ObjectRef" -> v.ref
      [] OTHER -> ArrayToJsonText(v.scalars)

\* C30: in a built workbook every scalar, scalar-array and single-reference
\* property of a node has a cell of its own in the node's row of each of
\* its type tables: the row holds the property's text under the property's
\* column, whatever the other properties of the node are
C30_OwnCell ==
    Built =>
        \A i \in 1..Len(nodes) : \A r \in MetadataOfKind("type") :
            r[3] \in Membership(nodes[i]) =>
                \A p \in DOMAIN nodes[i].properties \ EdgeArrays(nodes[i]) :
                    \E k \in 1..Len(TableNamed(r[2]).rows) :
                    \E c \in 2..Len(TableNamed(r[2]).columns) :
                        /\ TableNamed(r[2]).rows[k][1] = nodes[i].id
                        /\ TableNamed(r[2]).columns[c]
                              = IF nodes[i].properties[p].variant = "ObjectRef"
                                THEN p \o "Id" ELSE p
                        /\ TableNamed(r[2]).rows[k][c] = CellText(nodes[i].properties[p])

====
